---- MODULE Spec2Model ----
(***************************************************************************)
(* TranslationAPIClient (src/Assignment_18/Task_4/translation_api.py):     *)
(* input validation, the inter-request rate limiter, the mock and the live *)
(* transport, the classification of live responses and the retry loop of   *)
(* translate.                                                              *)
(*                                                                         *)
(* Time is counted in ticks of a quarter of a second, so REQUEST_TIMEOUT   *)
(* (0.5 s) is 2 ticks and RETRY_DELAY (1 s) is 4 ticks.                    *)
(*                                                                         *)
(* Spec:       one caller making translate calls, one after the other.     *)
(* CancelSpec: Spec with calls interrupted by an asynchronous exception.   *)
(* UnitSpec:   _calculate_retry_delay, get_available_languages and         *)
(*             _fetch_real_translation called on their own.                *)
(* ConcSpec:   two threads inside _rate_limit of one client.               *)
(* SearchSpec: the /search endpoint of src/Assignment_15.3/app3.py.        *)
(* PairSpec:   translate on a live client and live calls on a second       *)
(*             instance.                                                   *)
(* StoreSpec:  the student store of src/Assignment_15.3/app2.py.           *)
(* StockSpec:  StockAPIClient of src/Assignment_18/Task_3/stock_query.py,  *)
(*             its clock in seconds.                                       *)
(* MathSpec:   the factorials and is_prime of src/Assignment_1, and        *)
(*             MathFairSpec, where the loop of is_prime runs on.           *)
(***************************************************************************)
EXTENDS Integers, Sequences, FiniteSets, TLC

\* ------------------------------------------------------------------ bounds
\* translate is not entered once the clock has passed MaxTime
MaxTime == 3
\* a network call takes 0..MaxNetTime ticks
MaxNetTime == 1
\* the caller waits 0..MaxIdle ticks between two translate calls
MaxIdle == 1
\* _calculate_retry_delay is called on its own with attempt in 0..MaxAttempt
MaxAttempt == 5

\* ------------------------------------------------------- program constants
MAX_RETRIES == 3
\* RETRY_DELAY = 1 second, in ticks
RETRY_DELAY == 4
\* REQUEST_TIMEOUT = 0.5 seconds, in ticks
REQUEST_TIMEOUT == 2
\* the 5000 of validate_input
MAX_TEXT_LENGTH == 5000

RetryStrategy == {"exponential", "linear", "immediate"}

SUPPORTED_LANGUAGES ==
  [auto |-> "Auto-detect", ar |-> "Arabic", bn |-> "Bengali", cs |-> "Czech",
   cy |-> "Welsh", da |-> "Danish", de |-> "German", el |-> "Greek",
   en |-> "English", es |-> "Spanish", fa |-> "Farsi", fi |-> "Finnish",
   fr |-> "French", gu |-> "Gujarati", he |-> "Hebrew", hi |-> "Hindi",
   hu |-> "Hungarian", id |-> "Indonesian", it |-> "Italian",
   ja |-> "Japanese", kn |-> "Kannada", ko |-> "Korean", lt |-> "Lithuanian",
   lv |-> "Latvian", mk |-> "Macedonian", ml |-> "Malayalam",
   mr |-> "Marathi", ne |-> "Nepali", nl |-> "Dutch", pa |-> "Punjabi",
   pl |-> "Polish", pt |-> "Portuguese", ro |-> "Romanian", ru |-> "Russian",
   sk |-> "Slovak", sl |-> "Slovenian", sv |-> "Swedish", ta |-> "Tamil",
   te |-> "Telugu", tr |-> "Turkish", uk |-> "Ukrainian",
   vi |-> "Vietnamese", zh |-> "Chinese"]

\* ------------------------------------------------------------ str methods
Whitespace == {" ", "\t", "\n"}

UpperToLower ==
  [A |-> "a", B |-> "b", C |-> "c", D |-> "d", E |-> "e", F |-> "f",
   G |-> "g", H |-> "h", I |-> "i", J |-> "j", K |-> "k", L |-> "l",
   M |-> "m", N |-> "n", O |-> "o", P |-> "p", Q |-> "q", R |-> "r",
   S |-> "s", T |-> "t", U |-> "u", V |-> "v", W |-> "w", X |-> "x",
   Y |-> "y", Z |-> "z"]

\* A str is the sequence of its runs: [c |-> a character, n |-> how many
\* times it is repeated], no two adjacent runs having the same character.
RECURSIVE Canon(_)
Canon(r) ==
  IF Len(r) <= 1 THEN r
  ELSE LET rest == Canon(Tail(r))
       IN  IF Head(r).c = Head(rest).c
             THEN <<[c |-> Head(r).c, n |-> Head(r).n + Head(rest).n]>>
                     \o Tail(rest)
             ELSE <<Head(r)>> \o rest

\* the str of the characters chars
Str(chars) == Canon([i \in DOMAIN chars |-> [c |-> chars[i], n |-> 1]])

\* c * n
Rep(c, n) == IF n = 0 THEN <<>> ELSE <<[c |-> c, n |-> n]>>

\* s + t
Concat(s, t) == Canon(s \o t)

\* len(s)
RECURSIVE StrLen(_)
StrLen(s) == IF s = <<>> THEN 0 ELSE Head(s).n + StrLen(Tail(s))

\* str.lower()
Lower(s) ==
  Canon([i \in DOMAIN s |->
           [c |-> IF s[i].c \in DOMAIN UpperToLower
                    THEN UpperToLower[s[i].c] ELSE s[i].c,
            n |-> s[i].n]])

\* str.strip(): without the leading and the trailing whitespace
Strip(s) ==
  LET solid == {i \in DOMAIN s : s[i].c \notin Whitespace}
  IN  IF solid = {} THEN <<>>
      ELSE SubSeq(s, CHOOSE i \in solid : \A j \in solid : i <= j,
                     CHOOSE i \in solid : \A j \in solid : j <= i)

\* the str of a string literal
StrOf(lit) == Str([i \in 1..Len(lit) |-> SubSeq(lit, i, i)])

\* the characters of s, one by one
RECURSIVE Chars(_)
Chars(s) ==
  IF s = <<>> THEN <<>>
  ELSE IF Head(s).n = 1 THEN <<Head(s).c>> \o Chars(Tail(s))
  ELSE <<Head(s).c>>
         \o Chars(<<[c |-> Head(s).c, n |-> Head(s).n - 1]>> \o Tail(s))

\* the str as one dictionary key
RECURSIVE JoinChars(_)
JoinChars(cs) == IF cs = <<>> THEN "" ELSE Head(cs) \o JoinChars(Tail(cs))

Join(s) == JoinChars(Chars(s))

\* `needle in s` for two str values
Contains(s, needle) ==
  LET cs == Chars(s)
      ns == Chars(needle)
  IN  \E i \in 1..(Len(cs) - Len(ns) + 1) :
         SubSeq(cs, i, i + Len(ns) - 1) = ns

\* ------------------------------------------------------------- the inputs
TextEmpty == <<>>
TextBlank == Str(<<" ", "\t">>)
TextTooLong == Rep("a", MAX_TEXT_LENGTH + 1)
TextHello == Str(<<"h", "e", "l", "l", "o", " ", "w", "o", "r", "l", "d">>)
\* MAX_TEXT_LENGTH characters and a trailing newline
TextPadded == Concat(Rep("a", MAX_TEXT_LENGTH), Str(<<"\n">>))
TextHelloCaps ==
  Str(<<"H", "e", "l", "l", "o", " ", "W", "O", "R", "L", "D">>)

Texts ==
  {TextEmpty, TextBlank, TextTooLong, TextPadded, TextHello, TextHelloCaps}

TargetEs == Str(<<"e", "s">>)

Targets ==
  { TargetEs, Str(<<"E", "S">>), Str(<<" ", "e", "s", " ">>),
    Str(<<"a", "u", "t", "o">>), Str(<<" ", "A", "u", "t", "o", "\n">>),
    Str(<<"x", "x">>), Str(<<"e", " ", "s">>), <<>>, Str(<<" ">>) }

\* the requests a caller makes: every text with the target "es", and the
\* text "hello world" with every target
Requests ==
  {<<t, TargetEs>> : t \in Texts} \cup {<<TextHello, g>> : g \in Targets}
      \cup {<<TextEmpty, Str(<<"x", "x">>)>>}

\* ------------------------------------------------------------- validation
\* validate_input comparing the code without lower()
MutValidateCaseSensitive(text, target_language) ==
  LET stripped == Strip(text)
      lang_code == Strip(target_language)
  IN  IF text = <<>> \/ stripped = <<>>
        THEN <<FALSE, "Text cannot be empty">>
      ELSE IF StrLen(stripped) > MAX_TEXT_LENGTH
        THEN <<FALSE, "Text too long">>
      ELSE IF target_language = <<>> \/ Strip(target_language) = <<>>
        THEN <<FALSE, "Target language code cannot be empty">>
      ELSE IF Join(lang_code) \notin DOMAIN SUPPORTED_LANGUAGES
        THEN <<FALSE, "Invalid language code">>
      ELSE <<TRUE, "None">>

\* validate_input checking the target before the text
MutValidateTargetFirst(text, target_language) ==
  LET stripped == Strip(text)
      lang_code == Strip(Lower(target_language))
  IN  IF target_language = <<>> \/ Strip(target_language) = <<>>
        THEN <<FALSE, "Target language code cannot be empty">>
      ELSE IF Join(lang_code) \notin DOMAIN SUPPORTED_LANGUAGES
        THEN <<FALSE, "Invalid language code">>
      ELSE IF text = <<>> \/ stripped = <<>>
        THEN <<FALSE, "Text cannot be empty">>
      ELSE IF StrLen(stripped) > MAX_TEXT_LENGTH
        THEN <<FALSE, "Text too long">>
      ELSE <<TRUE, "None">>

\* validate_input: <<is_valid, error_message>>
validate_input(text, target_language) ==
  LET stripped == Strip(text)
      lang_code == Strip(Lower(target_language))
  IN  IF text = <<>> \/ stripped = <<>>
        THEN <<FALSE, "Text cannot be empty">>
      ELSE IF StrLen(stripped) > MAX_TEXT_LENGTH
        THEN <<FALSE, "Text too long">>
      ELSE IF target_language = <<>> \/ Strip(target_language) = <<>>
        THEN <<FALSE, "Target language code cannot be empty">>
      ELSE IF Join(lang_code) \notin DOMAIN SUPPORTED_LANGUAGES
        THEN <<FALSE, "Invalid language code">>
      ELSE <<TRUE, "None">>

\* ---------------------------------------------------------- rate limiter
\* _rate_limit that never sleeps
MutNoRateLimit(t, last) == 0

\* _rate_limit, lines 109-113: the sleep it asks for at time t, 0 for none
rate_limit_sleep(t, last) ==
  LET elapsed == t - last
  IN  IF elapsed < REQUEST_TIMEOUT THEN REQUEST_TIMEOUT - elapsed ELSE 0

\* line 115 storing the current_time of line 109, read before the sleep
MutStampBeforeSleep(t, w) == t

\* _rate_limit, line 115: the time.time() stored in last_request_time, the
\* limiter having been entered at t and having slept w
rate_limit_stamp(t, w) == t + w

\* ------------------------------------------------------------- backoff
RECURSIVE Pow2(_)
Pow2(n) == IF n = 0 THEN 1 ELSE 2 * Pow2(n - 1)

\* the exponential delay with the exponent one too high
MutDelayOffByOne(strategy, attempt) ==
  IF strategy = "exponential" THEN RETRY_DELAY * Pow2(attempt + 1)
  ELSE IF strategy = "linear" THEN RETRY_DELAY * (attempt + 1)
  ELSE 0

\* the IMMEDIATE branch returning the base delay
MutDelayImmediateAsBase(strategy, attempt) ==
  IF strategy = "exponential" THEN RETRY_DELAY * Pow2(attempt)
  ELSE IF strategy = "linear" THEN RETRY_DELAY * (attempt + 1)
  ELSE RETRY_DELAY

calculate_retry_delay(strategy, attempt) ==
  IF strategy = "exponential" THEN RETRY_DELAY * Pow2(attempt)
  ELSE IF strategy = "linear" THEN RETRY_DELAY * (attempt + 1)
  ELSE 0

\* ------------------------------------------------------ the live transport
\* the request body _fetch_real_translation posts
payload(txt, target) == [q |-> txt, source |-> "auto", target |-> Lower(target)]

\* What session.post and raise_for_status give (net), and for a response the
\* body: no JSON, a JSON value that is no object, or an object with or
\* without the fields 'error' and 'translatedText'.
NoStr == <<>>

Body(json, has_error, error_is_str, error, has_text) ==
  [json |-> json, has_error |-> has_error, error_is_str |-> error_is_str,
   error |-> error, has_text |-> has_text]

NoBody == Body("none", FALSE, FALSE, NoStr, FALSE)

ErrQuota == Str(<<"Q", "u", "o", "t", "a", " ", "u", "s", "e", "d">>)
ErrLimit == Str(<<"u", "n", "l", "i", "m", "i", "t", "e", "d">>)
ErrLanguage ==
  Str(<<"b", "a", "d", " ", "L", "a", "n", "g", "u", "a", "g", "e">>)
ErrOther == Str(<<"d", "o", "w", "n">>)

Responses ==
  { [net |-> "timeout", body |-> NoBody],
    [net |-> "connect", body |-> NoBody],
    [net |-> "other", body |-> NoBody],
    [net |-> "ok", body |-> Body("invalid", FALSE, FALSE, NoStr, FALSE)],
    [net |-> "ok", body |-> Body("array", FALSE, FALSE, NoStr, FALSE)],
    [net |-> "ok", body |-> Body("object", TRUE, TRUE, ErrQuota, FALSE)],
    [net |-> "ok", body |-> Body("object", TRUE, TRUE, ErrLimit, TRUE)],
    [net |-> "ok", body |-> Body("object", TRUE, TRUE, ErrLanguage, FALSE)],
    [net |-> "ok", body |-> Body("object", TRUE, TRUE, ErrOther, TRUE)],
    [net |-> "ok", body |-> Body("object", TRUE, FALSE, NoStr, TRUE)],
    [net |-> "ok", body |-> Body("object", FALSE, FALSE, NoStr, FALSE)],
    [net |-> "ok", body |-> Body("object", FALSE, FALSE, NoStr, TRUE)] }

\* more texts of the 'error' field
ErrLanguageLimit == StrOf("Language limit reached")
ErrQuotaLanguage == StrOf("quota for language es")
ErrLANGUAGE == StrOf("UNKNOWN LANGUAGE")
ErrEmpty == StrOf("")

ErrorTexts ==
  {ErrQuota, ErrLimit, ErrLanguage, ErrOther, ErrLanguageLimit,
   ErrQuotaLanguage, ErrLANGUAGE, ErrEmpty}

\* the objects with a str 'error' field, with and without 'translatedText'
ErrorPayloads ==
  {[net |-> "ok", body |-> Body("object", TRUE, TRUE, e, t)] :
     e \in ErrorTexts, t \in BOOLEAN}

\* an HTTP error status (raise_for_status raises) whose body is a JSON object
HttpErrors ==
  {[net |-> "other",
    body |-> Body("object", e, e, IF e THEN ErrQuota ELSE NoStr, t)] :
     e \in BOOLEAN, t \in BOOLEAN}

AllResponses == Responses \cup ErrorPayloads \cup HttpErrors

\* an exception: its Python type and the failure kind of its raise site
Exc(type, kind) == [type |-> type, kind |-> kind]
NoExc == Exc("None", "None")

\* translatedText: a canned text, or the placeholder built from a language
\* name and the text of the request
Translated(canned, name, of) == [canned |-> canned, name |-> name, of |-> of]

\* a result dictionary; detectedLanguage is "en" from the mock transport and
\* whatever the server sent ("server") from the live one
NoResult ==
  [translatedText |-> Translated("None", "", <<>>),
   detectedLanguage |-> "None", is_mock |-> FALSE, attempts |-> 0]

Raise(type, kind) == [exc |-> Exc(type, kind), data |-> NoResult]
Give(data) == [exc |-> NoExc, data |-> data]

\* the 'language' test made before the 'quota' and 'limit' test
MutClassifyLanguageFirst(r) ==
  IF r.net = "timeout" THEN Raise("TimeoutError", "Timeout")
  ELSE IF r.net = "connect" THEN Raise("ConnectionError", "ConnectionFailure")
  ELSE IF r.net = "other" THEN Raise("RequestException", "ProtocolError")
  ELSE IF r.body.json = "invalid" THEN Raise("ValueError", "MalformedResponse")
  ELSE IF r.body.json # "object" THEN Raise("ValueError", "MalformedResponse")
  ELSE IF r.body.has_error THEN
    IF ~r.body.error_is_str THEN Raise("AttributeError", "Unclassified")
    ELSE IF Contains(Lower(r.body.error),
                     Str(<<"l", "a", "n", "g", "u", "a", "g", "e">>))
      THEN Raise("ValueError", "UnsupportedLanguage")
    ELSE IF \/ Contains(Lower(r.body.error), Str(<<"q", "u", "o", "t", "a">>))
            \/ Contains(Lower(r.body.error), Str(<<"l", "i", "m", "i", "t">>))
      THEN Raise("ConnectionError", "RateLimited")
    ELSE Raise("ConnectionError", "ProtocolError")
  ELSE IF ~r.body.has_text THEN Raise("ValueError", "MalformedResponse")
  ELSE Give([translatedText |-> Translated("live text", "", <<>>),
             detectedLanguage |-> "server", is_mock |-> FALSE,
             attempts |-> 0])

\* raise_for_status left out: the body of an HTTP error is classified
MutNoRaiseForStatus(r) ==
  IF r.net = "timeout" THEN Raise("TimeoutError", "Timeout")
  ELSE IF r.net = "connect" THEN Raise("ConnectionError", "ConnectionFailure")
  ELSE IF r.body.json = "invalid" THEN Raise("ValueError", "MalformedResponse")
  ELSE IF r.body.json # "object" THEN Raise("ValueError", "MalformedResponse")
  ELSE IF r.body.has_error THEN
    IF ~r.body.error_is_str THEN Raise("AttributeError", "Unclassified")
    ELSE IF \/ Contains(Lower(r.body.error), Str(<<"q", "u", "o", "t", "a">>))
            \/ Contains(Lower(r.body.error), Str(<<"l", "i", "m", "i", "t">>))
      THEN Raise("ConnectionError", "RateLimited")
    ELSE IF Contains(Lower(r.body.error),
                     Str(<<"l", "a", "n", "g", "u", "a", "g", "e">>))
      THEN Raise("ValueError", "UnsupportedLanguage")
    ELSE Raise("ConnectionError", "ProtocolError")
  ELSE IF ~r.body.has_text THEN Raise("ValueError", "MalformedResponse")
  ELSE Give([translatedText |-> Translated("live text", "", <<>>),
             detectedLanguage |-> "server", is_mock |-> FALSE,
             attempts |-> 0])

\* _fetch_real_translation after _rate_limit, lines 240-298: what the call
\* raises or returns for the response r
classify_response(r) ==
  IF r.net = "timeout" THEN Raise("TimeoutError", "Timeout")
  ELSE IF r.net = "connect" THEN Raise("ConnectionError", "ConnectionFailure")
  ELSE IF r.net = "other" THEN Raise("RequestException", "ProtocolError")
  ELSE IF r.body.json = "invalid" THEN Raise("ValueError", "MalformedResponse")
  ELSE IF r.body.json # "object" THEN Raise("ValueError", "MalformedResponse")
  ELSE IF r.body.has_error THEN
    IF ~r.body.error_is_str THEN Raise("AttributeError", "Unclassified")
    ELSE IF \/ Contains(Lower(r.body.error), Str(<<"q", "u", "o", "t", "a">>))
            \/ Contains(Lower(r.body.error), Str(<<"l", "i", "m", "i", "t">>))
      THEN Raise("ConnectionError", "RateLimited")
    ELSE IF Contains(Lower(r.body.error),
                     Str(<<"l", "a", "n", "g", "u", "a", "g", "e">>))
      THEN Raise("ValueError", "UnsupportedLanguage")
    ELSE Raise("ConnectionError", "ProtocolError")
  ELSE IF ~r.body.has_text THEN Raise("ValueError", "MalformedResponse")
  ELSE Give([translatedText |-> Translated("live text", "", <<>>),
             detectedLanguage |-> "server", is_mock |-> FALSE,
             attempts |-> 0])

\* what _fetch_real_translation raises or returns, for each response
fetch_outcome == [r \in AllResponses |-> classify_response(r)]

\* the first except clause catching ValueError too
MutCaughtValueError(e) ==
  e.type \in {"TimeoutError", "ConnectionError", "ValueError"}

\* the first except clause catching RequestException too
MutCaughtRequestException(e) ==
  e.type \in {"TimeoutError", "ConnectionError", "RequestException"}

\* the first except clause written `except BaseException`
MutCaughtBaseException(e) == TRUE

\* translate, line 331: the exceptions its first except clause catches
CaughtForRetry(e) == e.type \in {"TimeoutError", "ConnectionError"}

\* a backoff sleep after the last attempt too
MutSleepAfterLastAttempt(attempt, retries) == attempt < retries

\* translate, line 334: a backoff sleep and another attempt follow
AttemptsRemain(attempt, retries) == attempt < retries - 1

\* raise last_error, as it stood before this attempt, in place of the bare raise
MutRaiseEarlier(e, last) == IF last = NoExc THEN e ELSE last

\* translate, lines 339 and 343: the bare raise surfaces the exception e of
\* this attempt; last is last_error as the earlier attempts left it
Reraised(e, last) == e

\* every result stamped attempts = 1
MutAttemptsAlwaysOne(attempt) == 1

\* the zero-indexed attempt stamped on a result
MutAttemptsZeroIndexed(attempt) == attempt

\* translate, line 328: the attempts value stamped on a result
AttemptsUsed(attempt) == attempt + 1

\* ------------------------------------------------------ the mock transport
PhraseHello == TextHello
PhraseMorning ==
  Str(<<"g", "o", "o", "d", " ", "m", "o", "r", "n", "i", "n", "g">>)
PhraseHow == Str(<<"h", "o", "w", " ", "a", "r", "e", " ", "y", "o", "u">>)
PhraseThanks == Str(<<"t", "h", "a", "n", "k", " ", "y", "o", "u">>)
PhraseBye == Str(<<"g", "o", "o", "d", "b", "y", "e">>)

\* mock_translations: <<text, target, translation>>; the translations are
\* written in ASCII
mock_translations ==
  { <<PhraseHello, "es", "Hola mundo">>,
    <<PhraseHello, "fr", "Bonjour le monde">>,
    <<PhraseHello, "de", "Hallo Welt">>,
    <<PhraseHello, "ja", "Konnichiwa sekai">>,
    <<PhraseHello, "zh", "Ni hao shijie">>,
    <<PhraseHello, "ru", "Privet mir">>,
    <<PhraseMorning, "es", "Buenos dias">>,
    <<PhraseMorning, "fr", "Bonjour">>,
    <<PhraseMorning, "de", "Guten Morgen">>,
    <<PhraseMorning, "ja", "Ohayou gozaimasu">>,
    <<PhraseHow, "de", "Wie geht es dir?">>,
    <<PhraseHow, "es", "Como estas?">>,
    <<PhraseHow, "fr", "Comment allez-vous?">>,
    <<PhraseHow, "ja", "Ogenki desu ka?">>,
    <<PhraseThanks, "fr", "Merci">>,
    <<PhraseThanks, "es", "Gracias">>,
    <<PhraseThanks, "de", "Danke">>,
    <<PhraseThanks, "ja", "Arigatou gozaimasu">>,
    <<PhraseBye, "ja", "Sayounara">>,
    <<PhraseBye, "es", "Adios">>,
    <<PhraseBye, "fr", "Au revoir">> }

\* _fetch_mock_translation looking the text up as it was typed
MutMockTextAsTyped(txt, target) ==
  LET key == <<txt, Join(Lower(target))>>
      hits == {m \in mock_translations : m[1] = key[1] /\ m[2] = key[2]}
      code == Join(Lower(target))
  IN  [translatedText |->
         IF hits # {} THEN Translated((CHOOSE m \in hits : TRUE)[3], "", <<>>)
         ELSE Translated("",
                IF code \in DOMAIN SUPPORTED_LANGUAGES
                  THEN SUPPORTED_LANGUAGES[code] ELSE "Unknown",
                txt),
       detectedLanguage |-> "en", is_mock |-> TRUE, attempts |-> 0]

\* _fetch_mock_translation
fetch_mock_translation(txt, target) ==
  LET key == <<Lower(txt), Join(Lower(target))>>
      hits == {m \in mock_translations : m[1] = key[1] /\ m[2] = key[2]}
      code == Join(Lower(target))
  IN  [translatedText |->
         IF hits # {} THEN Translated((CHOOSE m \in hits : TRUE)[3], "", <<>>)
         ELSE Translated("",
                IF code \in DOMAIN SUPPORTED_LANGUAGES
                  THEN SUPPORTED_LANGUAGES[code] ELSE "Unknown",
                txt),
       detectedLanguage |-> "en", is_mock |-> TRUE, attempts |-> 0]

\* what _fetch_mock_translation returns, for each request
mock_result == [q \in Requests |-> fetch_mock_translation(q[1], q[2])]

\* --------------------------------------------------------------- the state
VARIABLES
  max_retries,        \* the client: self.max_retries
  use_mock,           \* self.use_mock
  RETRY_STRATEGY,     \* the class attribute RETRY_STRATEGY
  last_request_time,  \* self.last_request_time
  now,                \* time.time()
  pc,                 \* translate: "idle", "attempting", "succeeded", "failed"
  text,               \* the arguments of the translate call
  target_language,
  attempt,            \* the loop variable of translate
  last_error,         \* the local last_error of translate
  outcome,            \* what translate returned (data) or raised (exc)
  log,                \* what the translate call has done so far, in order
  last_start,         \* the start of the last live network call, -1 for none
  invoked,            \* the method of the client called on its own, with
                      \* its argument
  returned,           \* what that method returned or raised
  threads,            \* for each thread inside _fetch_real_translation:
                      \* where it is and the locals of its _rate_limit
  starts,             \* the live network calls so far: thread and start
  items,              \* app3: the module-level list items
  args,               \* app3: request.args of the last /search request
  response,           \* app3: the response to it
  peer,               \* a second client: its last_request_time, the start
                      \* of its last live network call and what its last
                      \* _fetch_real_translation returned or raised
  students,           \* app2: the module-level dict students
  next_id,            \* app2: the module-level next_id
  issued,             \* app2: the ids of the 201 responses so far, in order
  request,            \* app2: the last request: method, id of the URL, JSON
  reply,              \* app2: the response to it
  stock,              \* a StockAPIClient: api_key, use_mock, request_count
                      \* and rate_limit_reset
  clock,              \* datetime.now(), in seconds since the client was made
  frame               \* is_prime: its locals i and w while its loop runs

vars ==
  <<max_retries, use_mock, RETRY_STRATEGY, last_request_time, now, pc, text,
    target_language, attempt, last_error, outcome, log, last_start, invoked,
    returned, threads, starts, items, args, response, peer, students,
    next_id, issued, request, reply, stock, clock, frame>>

config == <<max_retries, use_mock, RETRY_STRATEGY>>

\* the state of a translate call
call_vars == <<pc, text, target_language, attempt, last_error, outcome, log>>

\* the state outside the one translation client
store_vars == <<students, next_id, issued, request, reply>>

stock_vars == <<stock, clock>>

more_vars == <<peer, store_vars, stock_vars, frame>>

\* what a translate call of the one caller leaves alone
rest_vars ==
  <<invoked, returned, threads, starts, items, args, response, more_vars>>

\* an entry of log: "validate" (what: "ok" or "invalid"), "rate_wait" (n: the
\* sleep of _rate_limit), "call" (type and what: the exception of the
\* transport call, what is "ok" or "mock" for none; n: the attempt) and
\* "sleep" (n: the backoff sleep)
Ev(ev, type, what, n) == [ev |-> ev, type |-> type, what |-> what, n |-> n]

NoOutcome == [exc |-> NoExc, data |-> NoResult]

\* no method has been called on its own
NoCall == [method |-> "None", arg |-> "None"]

\* the threads that may share the client
Threads == {"t1", "t2"}

\* a thread outside _rate_limit; wake is the time its sleep is over
NoThread == [pc |-> "out", wake |-> 0]

\* app3: the sample data
ITEMS ==
  << [id |-> 1, name |-> Str(<<"L", "a", "p", "t", "o", "p">>),
      category |-> Str(<<"E", "l", "e", "c", "t", "r", "o", "n", "i", "c", "s">>),
      price |-> 999],
     [id |-> 2, name |-> Str(<<"P", "h", "o", "n", "e">>),
      category |-> Str(<<"E", "l", "e", "c", "t", "r", "o", "n", "i", "c", "s">>),
      price |-> 699],
     [id |-> 3, name |-> Str(<<"B", "o", "o", "k">>),
      category |-> Str(<<"L", "i", "t", "e", "r", "a", "t", "u", "r", "e">>),
      price |-> 15],
     [id |-> 4, name |-> Str(<<"H", "e", "a", "d", "p", "h", "o", "n", "e", "s">>),
      category |-> Str(<<"E", "l", "e", "c", "t", "r", "o", "n", "i", "c", "s">>),
      price |-> 199] >>

\* app3: a query parameter of the request, given with a value or absent
Param(v) == [given |-> TRUE, value |-> v]
Absent == [given |-> FALSE, value |-> <<>>]

NoArgs ==
  [name |-> Absent, category |-> Absent, min_price |-> Absent,
   max_price |-> Absent]

\* __init__ of the second client, lines 102-105; it has made no call
NoPeer ==
  [last_request_time |-> 0, last_start |-> -1, returned |-> NoOutcome]

\* app2: a key of the JSON object of a request, given with a value or not
Field(v) == [given |-> TRUE, value |-> v]
NoField == [given |-> FALSE, value |-> "None"]

\* app2: request.get_json() giving None
NoJson ==
  [json |-> FALSE, name |-> NoField, age |-> NoField, grade |-> NoField,
   id |-> NoField]

\* app2: no student, in a response that carries none
NoStudent == [id |-> 0, name |-> "None", age |-> "None", grade |-> "None"]

\* app3: no request has been answered
NoResponse == [status |-> "None", count |-> 0, results |-> <<>>]

\* is_prime is not running
NoFrame == [running |-> FALSE, i |-> 0, w |-> 0]

\* StockAPIClient(api_key, use_mock) made at time t, lines 98-102
StockAPIClient(api_key, mock, t) ==
  [api_key |-> api_key, use_mock |-> mock, request_count |-> 0,
   rate_limit_reset |-> t]

\* __init__, with time.time() long after the zero of last_request_time
InitTranslation ==
  /\ max_retries \in 0..MAX_RETRIES
  /\ use_mock \in BOOLEAN
  /\ RETRY_STRATEGY \in RetryStrategy
  /\ last_request_time = 0
  /\ now = REQUEST_TIMEOUT
  /\ pc = "idle"
  /\ text = <<>>
  /\ target_language = <<>>
  /\ attempt = 0
  /\ last_error = NoExc
  /\ outcome = NoOutcome
  /\ log = <<>>
  /\ last_start = -1
  /\ invoked = NoCall
  /\ returned = "None"
  /\ threads = [t \in Threads |-> NoThread]
  /\ starts = <<>>
  /\ items = ITEMS
  /\ args = NoArgs
  /\ response = NoResponse
  /\ peer = NoPeer
  /\ students = <<>>
  /\ next_id = 1
  /\ issued = <<>>
  /\ request = [method |-> "None", id |-> 0, data |-> NoJson]
  /\ reply = [status |-> "None", error |-> "None", student |-> NoStudent]
  /\ frame = NoFrame

\* the translation client, and a stock client with the defaults of
\* StockAPIClient
Init ==
  /\ InitTranslation
  /\ stock = StockAPIClient("None", TRUE, 0)
  /\ clock = 0

\* every program as it starts, the translation client a live one with the
\* defaults of its class
DefaultInit ==
  /\ Init
  /\ max_retries = MAX_RETRIES
  /\ ~use_mock
  /\ RETRY_STRATEGY = "exponential"

\* translate entering its loop without validate_input
MutTranslateUnvalidated ==
  /\ pc # "attempting"
  /\ now <= MaxTime
  /\ \E idle \in 0..MaxIdle : now' = now + idle
  /\ \E req \in Requests :
       /\ text' = req[1]
       /\ target_language' = req[2]
  /\ log' = <<>>
  /\ pc' = "attempting"
  /\ outcome' = NoOutcome
  /\ attempt' = 0
  /\ last_error' = NoExc
  /\ UNCHANGED <<config, last_request_time, last_start, rest_vars>>

\* translate, lines 314-319: the caller, 0..MaxIdle ticks after the last call
\* ended, makes the call, which validates its input
Translate ==
  /\ pc # "attempting"
  /\ now <= MaxTime
  /\ \E idle \in 0..MaxIdle : now' = now + idle
  /\ \E req \in Requests :
       LET v == validate_input(req[1], req[2])
       IN  /\ text' = req[1]
           /\ target_language' = req[2]
           /\ log' = <<Ev("validate", "", IF v[1] THEN "ok" ELSE "invalid", 0)>>
           /\ IF v[1]
                THEN /\ pc' = "attempting"
                     /\ outcome' = NoOutcome
                ELSE /\ pc' = "failed"
                     /\ outcome' = Raise("ValueError", "Validation")
  /\ attempt' = 0
  /\ last_error' = NoExc
  /\ UNCHANGED <<config, last_request_time, last_start, rest_vars>>

\* the mock attempt going through _rate_limit like a live one
MutMockRateLimited ==
  /\ pc = "attempting"
  /\ use_mock
  /\ attempt < max_retries
  /\ LET w == rate_limit_sleep(now, last_request_time)
     IN  /\ log' = log \o (IF w > 0 THEN <<Ev("rate_wait", "", "", w)>> ELSE <<>>)
                       \o <<Ev("call", "None", "mock", attempt)>>
         /\ last_request_time' = now + w
         /\ now' = now + w
  /\ outcome' = Give([mock_result[<<text, target_language>>]
                        EXCEPT !.attempts = AttemptsUsed(attempt)])
  /\ pc' = "succeeded"
  /\ UNCHANGED <<config, text, target_language, attempt, last_error,
                 last_start, rest_vars>>

\* the mock attempt storing the target trimmed and lowercased
MutMockNormalisesTarget ==
  /\ pc = "attempting"
  /\ use_mock
  /\ attempt < max_retries
  /\ log' = log \o <<Ev("call", "None", "mock", attempt)>>
  /\ outcome' = Give([mock_result[<<text, target_language>>]
                        EXCEPT !.attempts = AttemptsUsed(attempt)])
  /\ pc' = "succeeded"
  /\ target_language' = Strip(Lower(target_language))
  /\ UNCHANGED <<config, last_request_time, now, text,
                 attempt, last_error, last_start, rest_vars>>

\* translate, lines 321-343 with use_mock: one iteration of the loop
AttemptMock ==
  /\ pc = "attempting"
  /\ use_mock
  /\ attempt < max_retries
  /\ log' = log \o <<Ev("call", "None", "mock", attempt)>>
  /\ outcome' = Give([mock_result[<<text, target_language>>]
                        EXCEPT !.attempts = AttemptsUsed(attempt)])
  /\ pc' = "succeeded"
  /\ UNCHANGED <<config, last_request_time, now, text, target_language,
                 attempt, last_error, last_start, rest_vars>>

\* translate, lines 321-343 without use_mock: one iteration of the loop, that
\* is _rate_limit, the network call, the classification of its response and
\* the handling of what _fetch_real_translation raised.  A sleep lasts what
\* was asked for, the least time.sleep guarantees; the network call starts at
\* the stamp of line 115 and lasts d ticks.
AttemptLive ==
  /\ pc = "attempting"
  /\ ~use_mock
  /\ attempt < max_retries
  /\ \E r \in Responses, d \in 0..MaxNetTime :
       LET w == rate_limit_sleep(now, last_request_time)
           start == now + w
           f == fetch_outcome[r]
           called == log \o (IF w > 0 THEN <<Ev("rate_wait", "", "", w)>> ELSE <<>>)
                         \o <<Ev("call", f.exc.type,
                                 IF f.exc = NoExc THEN "ok" ELSE f.exc.kind,
                                 attempt)>>
           delay == calculate_retry_delay(RETRY_STRATEGY, attempt)
       IN  /\ last_request_time' = rate_limit_stamp(now, w)
           /\ last_start' = start
           /\ IF f.exc = NoExc
                THEN /\ outcome' = Give([f.data EXCEPT
                                           !.attempts = AttemptsUsed(attempt)])
                     /\ pc' = "succeeded"
                     /\ log' = called
                     /\ now' = start + d
                     /\ UNCHANGED <<attempt, last_error>>
              ELSE IF CaughtForRetry(f.exc)
                        /\ AttemptsRemain(attempt, max_retries)
                THEN /\ last_error' = f.exc
                     /\ log' = called \o <<Ev("sleep", "", "backoff", delay)>>
                     /\ now' = start + d + delay
                     /\ attempt' = attempt + 1
                     /\ UNCHANGED <<pc, outcome>>
              ELSE /\ last_error' =
                        IF CaughtForRetry(f.exc) THEN f.exc ELSE last_error
                   /\ outcome' = [exc |-> Reraised(f.exc, last_error),
                                   data |-> NoResult]
                   /\ pc' = "failed"
                   /\ log' = called
                   /\ now' = start + d
                   /\ UNCHANGED attempt
  /\ UNCHANGED <<config, text, target_language, rest_vars>>

\* the loop started over when it is exhausted, in place of line 346
MutExhaustedStartsOver ==
  /\ pc = "attempting"
  /\ ~(attempt < max_retries)
  /\ attempt' = 0
  /\ UNCHANGED <<config, last_request_time, now, text, target_language,
                 pc, outcome, last_error, log, last_start, rest_vars>>

\* translate, line 346, reached when the loop body never ran: raise None
Exhausted ==
  /\ pc = "attempting"
  /\ ~(attempt < max_retries)
  /\ outcome' = Raise("TypeError", "Unclassified")
  /\ pc' = "failed"
  /\ UNCHANGED <<config, last_request_time, now, text, target_language,
                 attempt, last_error, log, last_start, rest_vars>>

Next == Translate \/ AttemptMock \/ AttemptLive \/ Exhausted

Spec == Init /\ [][Next]_vars

\* translate runs on: a call that has begun takes the next pass of its loop,
\* each transport call and each sleep returning
FairSpec ==
  /\ Init /\ [][Next]_vars
  /\ WF_vars(AttemptMock) /\ WF_vars(AttemptLive) /\ WF_vars(Exhausted)

\* ------------------------------------------------------------ interruption
\* The code takes no cancellation token and no caller-supplied timeout; a
\* call in progress is cancelled by an asynchronous exception, the
\* KeyboardInterrupt Python raises in the main thread on SIGINT, at one of
\* the three places where translate is suspended.
KeyboardInterrupt == Exc("KeyboardInterrupt", "Cancelled")

\* translate, lines 321-343 without use_mock: an iteration of the loop that
\* is interrupted, k ticks into the sleep of _rate_limit (line 113), into
\* the network call (line 241) or into the backoff sleep (line 337).  The
\* first two are inside the try of line 322 and meet its except clauses;
\* the third is inside the handler and meets none.
Interrupted ==
  /\ pc = "attempting"
  /\ ~use_mock
  /\ attempt < max_retries
  /\ LET w == rate_limit_sleep(now, last_request_time)
         start == now + w
         waited == IF w > 0 THEN <<Ev("rate_wait", "", "", w)>> ELSE <<>>
         delay == calculate_retry_delay(RETRY_STRATEGY, attempt)
         \* what translate does with the KeyboardInterrupt raised in its try,
         \* at time t, done being the log up to there
         Handle(t, done) ==
           IF CaughtForRetry(KeyboardInterrupt)
                /\ AttemptsRemain(attempt, max_retries)
             THEN /\ last_error' = KeyboardInterrupt
                  /\ log' = done \o <<Ev("sleep", "", "backoff", delay)>>
                  /\ now' = t + delay
                  /\ attempt' = attempt + 1
                  /\ UNCHANGED <<pc, outcome>>
             ELSE /\ last_error' = IF CaughtForRetry(KeyboardInterrupt)
                                     THEN KeyboardInterrupt ELSE last_error
                  /\ outcome' = [exc |-> Reraised(KeyboardInterrupt, last_error),
                                  data |-> NoResult]
                  /\ pc' = "failed"
                  /\ log' = done
                  /\ now' = t
                  /\ UNCHANGED attempt
     IN  \/ \E k \in 0..(w - 1) :
              /\ Handle(now + k,
                        log \o <<Ev("rate_wait", "KeyboardInterrupt",
                                    "Cancelled", k)>>)
              /\ UNCHANGED <<last_request_time, last_start>>
         \/ \E k \in 0..MaxNetTime :
              /\ Handle(start + k,
                        log \o waited
                            \o <<Ev("call", "KeyboardInterrupt", "Cancelled",
                                    attempt)>>)
              /\ last_request_time' = rate_limit_stamp(now, w)
              /\ last_start' = start
         \/ \E r \in Responses, d \in 0..MaxNetTime, k \in 0..(delay - 1) :
              /\ CaughtForRetry(fetch_outcome[r].exc)
              /\ AttemptsRemain(attempt, max_retries)
              /\ last_request_time' = rate_limit_stamp(now, w)
              /\ last_start' = start
              /\ last_error' = fetch_outcome[r].exc
              /\ log' = log \o waited
                            \o <<Ev("call", fetch_outcome[r].exc.type,
                                    fetch_outcome[r].exc.kind, attempt),
                                 Ev("sleep", "KeyboardInterrupt", "Cancelled",
                                    k)>>
              /\ outcome' = [exc |-> KeyboardInterrupt, data |-> NoResult]
              /\ pc' = "failed"
              /\ now' = start + d + k
              /\ UNCHANGED attempt
  /\ UNCHANGED <<config, text, target_language, rest_vars>>

CancelNext == Next \/ Interrupted

CancelSpec == Init /\ [][CancelNext]_vars

\* ------------------------------------------------ threads sharing a client
\* Two threads call translate on one live client.  Each goes through
\* _rate_limit in three steps, between which the other may run: the read of
\* the clock and of last_request_time (lines 109-110), the sleep (lines
\* 112-113, over at once when none is due) and the write of
\* last_request_time (line 115), with which its network call starts.
RateLimitRead(t) ==
  /\ threads[t].pc = "out"
  /\ now <= MaxTime
  /\ threads' = [threads EXCEPT ![t] =
                   [pc |-> "read",
                    wake |-> now + rate_limit_sleep(now, last_request_time)]]
  /\ UNCHANGED <<config, last_request_time, now, last_start, call_vars,
                 invoked, returned, starts, items, more_vars, args, response>>

RateLimitSleep(t) ==
  /\ threads[t].pc = "read"
  /\ now >= threads[t].wake
  /\ threads' = [threads EXCEPT ![t].pc = "woke"]
  /\ UNCHANGED <<config, last_request_time, now, last_start, call_vars,
                 invoked, returned, starts, items, more_vars, args, response>>

RateLimitWrite(t) ==
  /\ threads[t].pc = "woke"
  /\ last_request_time' = now
  /\ last_start' = now
  /\ starts' = Append(starts, [thread |-> t, at |-> now])
  /\ threads' = [threads EXCEPT ![t] = NoThread]
  /\ UNCHANGED <<config, now, call_vars, invoked, returned, items, more_vars, args,
                 response>>

\* the clock moves on, up to the end of the last wait that can be due
Tick ==
  /\ now < MaxTime + REQUEST_TIMEOUT
  /\ now' = now + 1
  /\ UNCHANGED <<config, last_request_time, last_start, call_vars, invoked,
                 returned, threads, starts, items, more_vars, args, response>>

ConcInit ==
  /\ Init
  /\ max_retries = MAX_RETRIES
  /\ ~use_mock
  /\ RETRY_STRATEGY = "exponential"

ConcNext ==
  \/ Tick
  \/ \E t \in Threads : RateLimitRead(t)
  \/ \E t \in Threads : RateLimitSleep(t)
  \/ \E t \in Threads : RateLimitWrite(t)

ConcSpec == ConcInit /\ [][ConcNext]_vars

\* ------------------------------------------------------- app3: /search
\* a float: a finite number or float('inf')
Num(v) == [inf |-> FALSE, v |-> v]
Inf == [inf |-> TRUE, v |-> 0]

\* a <= b for an int a and a float b, and for a float a and an int b
IntLeq(a, b) == b.inf \/ a <= b.v
LeqInt(a, b) == ~a.inf /\ a.v <= b

Digits == "0123456789"

DigitValue(c) == (CHOOSE i \in 1..Len(Digits) : SubSeq(Digits, i, i) = c) - 1

IsDigit(c) == \E i \in 1..Len(Digits) : SubSeq(Digits, i, i) = c

\* the number the digits cs write, acc being the number written so far
RECURSIVE DigitsValue(_, _)
DigitsValue(cs, acc) ==
  IF cs = <<>> THEN acc
  ELSE DigitsValue(Tail(cs), 10 * acc + DigitValue(Head(cs)))

\* float(s) for a str: surrounding whitespace is dropped and a run of
\* digits is read as a number; anything else here ("abc", "") is a
\* ValueError
ParseFloat(s) ==
  LET cs == Chars(Strip(s))
  IN  IF cs # <<>> /\ \A i \in DOMAIN cs : IsDigit(cs[i])
        THEN [ok |-> TRUE, value |-> Num(DigitsValue(cs, 0))]
        ELSE [ok |-> FALSE, value |-> Num(0)]

\* request.args.get(key, default) followed by float()
FloatArg(param, default) ==
  IF param.given THEN ParseFloat(param.value)
  ELSE [ok |-> TRUE, value |-> default]

\* the query strings of the requests
Names == {Absent, Param(StrOf("LAP")), Param(StrOf("o")), Param(StrOf(""))}
Categories == {Absent, Param(StrOf("electronics")), Param(StrOf("LIT"))}
MinPrices ==
  {Absent, Param(StrOf("100")), Param(StrOf("15")), Param(StrOf("abc"))}
MaxPrices ==
  {Absent, Param(StrOf("800")), Param(StrOf("500")), Param(StrOf("15")),
   Param(StrOf(" 199 "))}

\* search with both price bounds exclusive
MutSearchExclusiveBounds(a, its) ==
  LET name == Lower(a.name.value)
      category == Lower(a.category.value)
      min_price == FloatArg(a.min_price, Num(0))
      max_price == FloatArg(a.max_price, Inf)
      ByName(item) == Contains(Lower(item.name), name)
      ByCategory(item) == Contains(Lower(item.category), category)
      ByPrice(item) ==
        /\ LeqInt(min_price.value, item.price) /\ min_price.value.v # item.price
        /\ IntLeq(item.price, max_price.value) /\ max_price.value.v # item.price
      by_name == IF name # <<>> THEN SelectSeq(its, ByName) ELSE its
      by_category ==
        IF category # <<>> THEN SelectSeq(by_name, ByCategory) ELSE by_name
      results == SelectSeq(by_category, ByPrice)
  IN  IF ~min_price.ok \/ ~max_price.ok
        THEN [status |-> "500", count |-> 0, results |-> <<>>]
        ELSE [status |-> "200", count |-> Len(results), results |-> results]

\* search, lines 16-34: the response to a request with the query args a,
\* its being the list items; a ValueError of float() is answered with 500
search(a, its) ==
  LET name == Lower(a.name.value)
      category == Lower(a.category.value)
      min_price == FloatArg(a.min_price, Num(0))
      max_price == FloatArg(a.max_price, Inf)
      ByName(item) == Contains(Lower(item.name), name)
      ByCategory(item) == Contains(Lower(item.category), category)
      ByPrice(item) ==
        /\ LeqInt(min_price.value, item.price)
        /\ IntLeq(item.price, max_price.value)
      by_name == IF name # <<>> THEN SelectSeq(its, ByName) ELSE its
      by_category ==
        IF category # <<>> THEN SelectSeq(by_name, ByCategory) ELSE by_name
      results == SelectSeq(by_category, ByPrice)
  IN  IF ~min_price.ok \/ ~max_price.ok
        THEN [status |-> "500", count |-> 0, results |-> <<>>]
        ELSE [status |-> "200", count |-> Len(results), results |-> results]

\* GET /search with some query string
Search ==
  /\ \E n \in Names, c \in Categories, lo \in MinPrices, hi \in MaxPrices :
       /\ args' = [name |-> n, category |-> c, min_price |-> lo,
                    max_price |-> hi]
       /\ response' = search(args', items)
  /\ UNCHANGED <<config, last_request_time, now, last_start, call_vars,
                 invoked, returned, threads, starts, items, more_vars>>

SearchInit ==
  /\ Init
  /\ max_retries = MAX_RETRIES
  /\ ~use_mock
  /\ RETRY_STRATEGY = "exponential"

SearchSpec == SearchInit /\ [][Search]_vars

\* ------------------------------------------- the methods called on their own
\* the order of str for the lowercase language codes
Alphabet == "abcdefghijklmnopqrstuvwxyz"

Ord(c) == CHOOSE i \in 1..Len(Alphabet) : SubSeq(Alphabet, i, i) = c

RECURSIVE StrLess(_, _)
StrLess(a, b) ==
  IF a = "" THEN b # ""
  ELSE IF b = "" THEN FALSE
  ELSE IF SubSeq(a, 1, 1) # SubSeq(b, 1, 1)
    THEN Ord(SubSeq(a, 1, 1)) < Ord(SubSeq(b, 1, 1))
  ELSE StrLess(SubSeq(a, 2, Len(a)), SubSeq(b, 2, Len(b)))

\* sorted(keys)
RECURSIVE SortedKeys(_)
SortedKeys(keys) ==
  IF keys = {} THEN <<>>
  ELSE LET least == CHOOSE k \in keys : \A j \in keys \ {k} : StrLess(k, j)
       IN  <<least>> \o SortedKeys(keys \ {least})

\* get_available_languages: the rows between the two rules, each the left
\* and the right entry of the row, an entry being <<code, name>>
get_available_languages ==
  LET keys == SortedKeys(DOMAIN SUPPORTED_LANGUAGES)
      languages == [i \in DOMAIN keys |-> <<keys[i], SUPPORTED_LANGUAGES[keys[i]]>>]
      mid_point == Len(languages) \div 2
  IN  [i \in 1..mid_point |->
         <<languages[i],
           IF mid_point + i - 1 < Len(languages)
             THEN languages[mid_point + i] ELSE <<>> >>]

\* client._calculate_retry_delay(a)
CalculateRetryDelay ==
  /\ \E a \in 0..MaxAttempt :
       /\ invoked' = [method |-> "_calculate_retry_delay", arg |-> a]
       /\ returned' = calculate_retry_delay(RETRY_STRATEGY, a)
  /\ UNCHANGED <<config, last_request_time, now, last_start, call_vars,
                 threads, starts, items, more_vars, args, response>>

\* client.get_available_languages()
GetAvailableLanguages ==
  /\ invoked' = [method |-> "get_available_languages", arg |-> "None"]
  /\ returned' = get_available_languages
  /\ UNCHANGED <<config, last_request_time, now, last_start, call_vars,
                 threads, starts, items, more_vars, args, response>>

\* client._fetch_real_translation(text, target_language), the transport
\* answering with r after d ticks
FetchRealTranslation ==
  /\ now <= MaxTime
  /\ \E r \in AllResponses, d \in 0..MaxNetTime :
       LET w == rate_limit_sleep(now, last_request_time)
       IN  /\ last_request_time' = rate_limit_stamp(now, w)
           /\ last_start' = now + w
           /\ now' = now + w + d
           /\ invoked' = [method |-> "_fetch_real_translation", arg |-> r]
           /\ returned' = fetch_outcome[r]
  /\ UNCHANGED <<config, call_vars, threads, starts, items, more_vars, args, response>>

\* the arguments validate_input is called with on its own
ValidationRequests == Texts \X Targets

\* client.validate_input(text, target_language)
ValidateInput ==
  /\ \E q \in ValidationRequests :
       /\ invoked' = [method |-> "validate_input", arg |-> q]
       /\ returned' = validate_input(q[1], q[2])
  /\ UNCHANGED <<config, last_request_time, now, last_start, call_vars,
                 threads, starts, items, more_vars, args, response>>

UnitNext ==
  \/ CalculateRetryDelay
  \/ GetAvailableLanguages
  \/ FetchRealTranslation
  \/ ValidateInput

UnitSpec == Init /\ [][UnitNext]_vars

\* ------------------------------------------------------- reading the log
IsCall(e) == e.ev = "call"
IsSleep(e) == e.ev = "sleep"
IsValidate(e) == e.ev = "validate"
NotRateWait(e) == e.ev # "rate_wait"

\* the transport calls and the backoff sleeps of the translate call, in order
Calls == SelectSeq(log, IsCall)
Sleeps == SelectSeq(log, IsSleep)

IsPrefix(s, t) == Len(s) <= Len(t) /\ SubSeq(t, 1, Len(s)) = s

\* entry i of log is directly followed by a backoff sleep
FollowedByBackoff(i) == i < Len(log) /\ log[i + 1].ev = "sleep"

RetryableKinds == {"Timeout", "ConnectionFailure", "RateLimited", "ProtocolError"}
NonRetryableKinds == {"Validation", "MalformedResponse", "UnsupportedLanguage"}

\* --------------------------------------------------------------- C1
\* C1: a live attempt that fails as MalformedResponse or UnsupportedLanguage
\* (a ValueError of the live path), at any attempt index, is the last thing
\* the translate call does: no backoff sleep and no transport call follow
\* it, and the call has failed with exactly that failure.
C1_NonRetryableEndsCall ==
  \A i \in DOMAIN log :
    (log[i].ev = "call"
       /\ log[i].what \in {"MalformedResponse", "UnsupportedLanguage"})
      => /\ log[i].type = "ValueError"
         /\ i = Len(log)
         /\ pc = "failed"
         /\ outcome = Raise("ValueError", log[i].what)

\* the second of three allowed attempts ends the call as UnsupportedLanguage
C1_Witness ==
  /\ pc = "failed"
  /\ max_retries = 3
  /\ Len(Calls) = 2
  /\ Calls[2].what = "UnsupportedLanguage"
  /\ Len(Sleeps) = 1

C3_Expected ==
  << Ev("validate", "", "ok", 0),
     Ev("call", "TimeoutError", "Timeout", 0), Ev("sleep", "", "backoff", 4),
     Ev("call", "TimeoutError", "Timeout", 1), Ev("sleep", "", "backoff", 8),
     Ev("call", "TimeoutError", "Timeout", 2) >>

\* C3: with Exponential, base delay 1 s and 3 attempts, a live translate call
\* whose transport calls all time out makes exactly 3 transport calls, sleeps
\* 1 s after the first and 2 s after the second, and then fails with Timeout.
C3_TimeoutSchedule ==
  (/\ max_retries = MAX_RETRIES
   /\ RETRY_STRATEGY = "exponential"
   /\ ~use_mock
   /\ pc # "idle"
   /\ log[1].what = "ok"
   /\ \A i \in DOMAIN Calls : Calls[i].what = "Timeout")
    => /\ IsPrefix(SelectSeq(log, NotRateWait), C3_Expected)
       /\ pc # "succeeded"
       /\ pc = "failed"
            => /\ SelectSeq(log, NotRateWait) = C3_Expected
               /\ outcome = Raise("TimeoutError", "Timeout")

C3_Witness ==
  /\ max_retries = MAX_RETRIES
  /\ RETRY_STRATEGY = "exponential"
  /\ ~use_mock
  /\ pc = "failed"
  /\ Len(Calls) = 3
  /\ \A i \in DOMAIN Calls : Calls[i].what = "Timeout"
  /\ Len(Sleeps) = 2 /\ Sleeps[1].n = 4 /\ Sleeps[2].n = 8

C5_LastFailureSurfaced ==
  (/\ pc = "failed"
   /\ max_retries >= 1
   /\ Len(Calls) = max_retries
   /\ \A i \in DOMAIN Calls : Calls[i].what \in RetryableKinds)
    => outcome = Raise(Calls[Len(Calls)].type, Calls[Len(Calls)].what)

\* three attempts failed with three different retryable kinds
C5_Witness ==
  /\ pc = "failed"
  /\ max_retries = 3
  /\ Len(Calls) = 3
  /\ Calls[1].what = "Timeout"
  /\ Calls[2].what = "ConnectionFailure"
  /\ Calls[3].what = "RateLimited"
  /\ outcome.exc.kind = "RateLimited"

\* --------------------------------------------------------------- C6
\* text is all whitespace (or empty)
IsBlank(t) == \A i \in DOMAIN t : t[i].c \in Whitespace

\* C6 as stated: a translate call whose text is empty, whitespace-only or
\* longer than 5000 characters has ended with the Validation failure and
\* has done nothing but validate: no transport call, no rate-limiter wait,
\* no backoff sleep.
C6_Original ==
  (pc # "idle" /\ (IsBlank(text) \/ StrLen(text) > 5000))
    => /\ pc = "failed"
       /\ outcome = Raise("ValueError", "Validation")
       /\ log = <<Ev("validate", "", "invalid", 0)>>

\* --------------------------------------------------------------- C7
\* the text passes the checks that validate_input makes before the target's
AcceptableText(t) == ~IsBlank(t) /\ StrLen(Strip(t)) <= 5000

\* C7: for a request with an acceptable text, validation accepts the target
\* code exactly when the code, trimmed and lowercased, is a key of
\* SUPPORTED_LANGUAGES; a rejected code ends translate with the Validation
\* failure and nothing else done; "es", "ES" and " es " are accepted.
C7_TargetAcceptedIffSupported ==
  (pc # "idle" /\ AcceptableText(text))
    => /\ log[1].ev = "validate"
       /\ log[1].what = "ok"
            <=> Join(Lower(Strip(target_language)))
                  \in DOMAIN SUPPORTED_LANGUAGES
       /\ log[1].what # "ok"
            => /\ pc = "failed"
               /\ outcome = Raise("ValueError", "Validation")
               /\ Len(log) = 1
       /\ target_language \in {Str(<<"e", "s">>), Str(<<"E", "S">>),
                               Str(<<" ", "e", "s", " ">>)}
            => log[1].what = "ok"

\* "ES" was accepted and the call went on to the transport
C7_Witness ==
  /\ pc = "succeeded"
  /\ target_language = Str(<<"E", "S">>)
  /\ log[1].what = "ok"

\* --------------------------------------------------------------- C8
\* C8 as stated: a translate call whose target, trimmed and lowercased, is
\* "auto" was rejected by validation and made no transport call.
C8_Original ==
  (pc # "idle" /\ Join(Lower(Strip(target_language))) = "auto")
    => /\ log[1].what = "invalid"
       /\ Calls = <<>>

\* --------------------------------------------------------------- C9
\* C9: in every translate call the first thing done is the one validation;
\* whatever follows (rate-limiter waits, transport calls, backoff sleeps of
\* any number of attempts) holds no second validation.
C9_ValidatedOnceFirst ==
  pc # "idle"
    => /\ Len(log) >= 1
       /\ log[1].ev = "validate"
       /\ \A i \in 2..Len(log) : log[i].ev # "validate"

\* three attempts were made after the one validation
C9_Witness ==
  /\ pc # "idle"
  /\ Len(Calls) = 3
  /\ Len(SelectSeq(log, IsValidate)) = 1
  /\ log[1].ev = "validate"

\* -------------------------------------------------------------- C10
\* C10: every live network call of the client, a retry of the same
\* translate call or the call of a later one, under any retry strategy,
\* starts at least REQUEST_TIMEOUT after the live call before it.
C10_MinimumSpacing ==
  [][ (pc = "attempting" /\ ~use_mock /\ log' # log /\ last_start # -1)
        => last_start' - last_start >= REQUEST_TIMEOUT ]_vars

\* under Immediate a retry came a quarter of a second after the failed call
\* had started, and the rate limiter made it wait for the other quarter
C10_Witness ==
  /\ RETRY_STRATEGY = "immediate"
  /\ \E i \in DOMAIN log :
       /\ i > 2
       /\ log[i].ev = "rate_wait"
       /\ log[i].n = 1
  /\ last_start = last_request_time

\* -------------------------------------------------------------- C11
\* the entries of the mock table for the request of the translate call
MockHits ==
  {m \in mock_translations :
     m[1] = Lower(text) /\ m[2] = Join(Lower(target_language))}

\* C11: on a mock client (with at least one attempt allowed), a validated
\* translate call whose lowercased text and lowercased target are a key of
\* the mock table has returned, whatever the client did before, the one
\* translation the table holds for the key, with is_mock = True, detected
\* language "en" and attempts = 1; "hello world" to "es" gives "Hola mundo".
C11_MockTableHit ==
  (/\ use_mock
   /\ max_retries >= 1
   /\ pc \in {"succeeded", "failed"}
   /\ log[1].what = "ok"
   /\ MockHits # {})
    => /\ pc = "succeeded"
       /\ outcome.exc = NoExc
       /\ \A m \in MockHits :
            outcome.data.translatedText = Translated(m[3], "", <<>>)
       /\ outcome.data.is_mock
       /\ outcome.data.detectedLanguage = "en"
       /\ outcome.data.attempts = 1
       /\ (Lower(text) = PhraseHello /\ Join(Lower(target_language)) = "es")
            => outcome.data.translatedText.canned = "Hola mundo"

\* "Hello WORLD" to "es" returned "Hola mundo" from the mock table
C11_Witness ==
  /\ use_mock
  /\ pc = "succeeded"
  /\ text = TextHelloCaps
  /\ target_language = TargetEs
  /\ outcome.data.translatedText.canned = "Hola mundo"
  /\ outcome.data.attempts = 1

\* -------------------------------------------------------------- C12
\* C12: a translate call on a mock client makes no rate-limiter wait, no
\* backoff sleep and no network call, takes no time and leaves
\* last_request_time as it was; once validation has passed (and at least
\* one attempt is allowed) it does not fail.
C12_MockBypassesRateLimiter ==
  /\ [][ use_mock => /\ last_request_time' = last_request_time
                     /\ last_start' = last_start
                     /\ pc = "attempting" => now' = now ]_vars
  /\ [](use_mock =>
          /\ \A i \in DOMAIN log :
               /\ log[i].ev \notin {"rate_wait", "sleep"}
               /\ log[i].ev = "call" => log[i].what = "mock"
          /\ (pc = "failed" /\ max_retries >= 1)
               => /\ log = <<Ev("validate", "", "invalid", 0)>>
                  /\ outcome = Raise("ValueError", "Validation"))

\* a validated mock call was served at once and left last_request_time at the
\* 0 of construction
C12_Witness ==
  /\ use_mock
  /\ pc = "succeeded"
  /\ Len(log) = 2
  /\ log[2].what = "mock"
  /\ last_request_time = 0

\* -------------------------------------------------------------- C13
\* C13: _calculate_retry_delay(attempt) returns RETRY_DELAY * 2^attempt
\* under Exponential, RETRY_DELAY * (attempt + 1) under Linear and 0 under
\* Immediate, for every attempt index: a value fixed by the strategy, the
\* base delay and the attempt alone, whatever the client did before.
C13_DelayIsClosedForm ==
  invoked.method = "_calculate_retry_delay"
    => /\ RETRY_STRATEGY = "exponential"
            => returned = RETRY_DELAY * 2 ^ invoked.arg
       /\ RETRY_STRATEGY = "linear"
            => returned = RETRY_DELAY * (invoked.arg + 1)
       /\ RETRY_STRATEGY = "immediate" => returned = 0

\* the delay of attempt 3 under Immediate, asked for after a live call
C13_Witness ==
  /\ invoked = [method |-> "_calculate_retry_delay", arg |-> 3]
  /\ RETRY_STRATEGY = "immediate"
  /\ returned = 0
  /\ last_start # -1

\* -------------------------------------------------------------- C14
\* the failures translate is meant to end with
ClassifiedTypes ==
  {"ValueError", "TimeoutError", "ConnectionError", "RequestException"}

\* C14 as stated, for the clients that allow at least one attempt: a
\* translate call that has ended, with any transport behaviour, has either
\* returned a result with translatedText and attempts and raised nothing, or
\* raised one of ValueError, TimeoutError, ConnectionError and
\* RequestException and returned nothing.
C14_Original ==
  (pc \in {"succeeded", "failed"} /\ max_retries >= 1)
    => \/ /\ pc = "succeeded"
          /\ outcome.exc = NoExc
          /\ outcome.data.translatedText.canned # "None"
          /\ outcome.data.attempts >= 1
       \/ /\ pc = "failed"
          /\ outcome.exc.type \in ClassifiedTypes
          /\ outcome.data = NoResult

\* -------------------------------------------------------------- C15
\* the entries of a listing in reading order, the left column first
Listed(rows) ==
  [i \in DOMAIN rows |-> rows[i][1]] \o [i \in DOMAIN rows |-> rows[i][2]]

\* C15 as stated: the listing get_available_languages returns holds every
\* entry of SUPPORTED_LANGUAGES exactly once, the code with its display
\* name, in sorted code order, and nothing else.
C15_Original ==
  invoked.method = "get_available_languages"
    => /\ \A code \in DOMAIN SUPPORTED_LANGUAGES :
            Cardinality({i \in DOMAIN Listed(returned) :
                           Listed(returned)[i]
                             = <<code, SUPPORTED_LANGUAGES[code]>>}) = 1
       /\ Len(Listed(returned)) = Cardinality(DOMAIN SUPPORTED_LANGUAGES)
       /\ \A i, j \in DOMAIN Listed(returned) :
            i < j => StrLess(Listed(returned)[i][1], Listed(returned)[j][1])

\* -------------------------------------------------------------- C16
\* C16: when a translate call is interrupted in the wait of the rate
\* limiter, in the network call or in a backoff sleep, that is the last
\* thing the call does: it has failed with the KeyboardInterrupt, which is
\* none of the transport and classification failures, it has returned no
\* result, and no attempt, wait or sleep follows.
C16_CancelledEndsCall ==
  \A i \in DOMAIN log :
    log[i].what = "Cancelled"
      => /\ i = Len(log)
         /\ pc = "failed"
         /\ outcome.exc = KeyboardInterrupt
         /\ outcome.exc.type \notin ClassifiedTypes
         /\ outcome.data = NoResult

\* with two attempts to spare, a call was interrupted in its first backoff
\* sleep; another in a rate-limiter wait, another in a network call
C16_Witness ==
  /\ pc = "failed"
  /\ max_retries = 3
  /\ outcome.exc = KeyboardInterrupt
  /\ Len(Calls) = 1
  /\ log[Len(log)].ev = "sleep"
  /\ log[Len(log)].what = "Cancelled"

\* -------------------------------------------------------------- C17
\* the numbers that the price bounds of the requests write
PriceMeaning ==
  { <<StrOf("100"), 100>>, <<StrOf("15"), 15>>, <<StrOf("800"), 800>>,
    <<StrOf("500"), 500>>, <<StrOf(" 199 "), 199>> }

\* the bound is absent or writes a number
IsPrice(p) == ~p.given \/ \E m \in PriceMeaning : m[1] = p.value

\* the item satisfies every filter that the request supplies
SatisfiesFilters(item) ==
  /\ args.name.given => Contains(Lower(item.name), Lower(args.name.value))
  /\ args.category.given
       => Contains(Lower(item.category), Lower(args.category.value))
  /\ \A m \in PriceMeaning :
       /\ (args.min_price.given /\ m[1] = args.min_price.value)
            => m[2] <= item.price
       /\ (args.max_price.given /\ m[1] = args.max_price.value)
            => item.price <= m[2]

\* C17: a /search request whose price bounds, where supplied, are numbers is
\* answered with exactly the items that satisfy all the supplied filters
\* (name and category as case-insensitive substrings, min_price <= price <=
\* max_price inclusive, an absent filter restricting nothing), in the order
\* of the item list, and with count the number of the results; the item
\* list is the same after any sequence of searches.
C17_SearchReturnsMatches ==
  /\ items = ITEMS
  /\ (response # NoResponse /\ IsPrice(args.min_price)
         /\ IsPrice(args.max_price))
       => /\ response.status = "200"
          /\ response.results = SelectSeq(ITEMS, SatisfiesFilters)
          /\ response.count = Len(response.results)

\* test_combined_search: category electronics with max_price 500 finds the
\* one item Headphones
C17_Witness ==
  /\ args = [name |-> Absent, category |-> Param(StrOf("electronics")),
              min_price |-> Absent, max_price |-> Param(StrOf("500"))]
  /\ response.status = "200"
  /\ response.count = 1
  /\ response.results[1].id = 4

\* -------------------------------------------------------------- C18
\* C18 as stated: with two threads calling translate on one live client and
\* their steps inside _rate_limit interleaving, any two live network calls
\* of the client start at least REQUEST_TIMEOUT apart.
C18_Original ==
  \A i, j \in DOMAIN starts :
    i < j => starts[j].at - starts[i].at >= REQUEST_TIMEOUT

\* -------------------------------------------------------------- C19
\* C19: every live attempt, whatever its network call then gives, sets
\* last_request_time to the time at which the wait of the rate limiter is
\* over (the time of entry plus the wait), which is when the network call
\* starts; so last_request_time never decreases, and once a live call has
\* been made it is the start time of the most recent one.
C19_StampedBeforeEveryCall ==
  /\ [][ (pc = "attempting" /\ ~use_mock /\ log' # log)
          => LET first == log'[Len(log) + 1]
                 wait == IF first.ev = "rate_wait" THEN first.n ELSE 0
             IN  /\ last_request_time' = now + wait
                 /\ last_request_time' = last_start'
                 /\ last_request_time' <= now' ]_vars
  /\ [][ last_request_time' >= last_request_time ]_vars
  /\ [](last_start # -1 => last_request_time = last_start)

\* an attempt that waited for the rate limiter and then got a malformed
\* payload left its start time in last_request_time
C19_Witness ==
  /\ pc = "failed"
  /\ Len(log) >= 2
  /\ log[Len(log)].what = "MalformedResponse"
  /\ log[Len(log) - 1].ev = "rate_wait"
  /\ last_request_time = last_start
  /\ last_request_time > REQUEST_TIMEOUT

\* -------------------------------------------------------------- C20
\* the text of the 'error' field mentions the word, in any case
Mentions(word) == Contains(Lower(invoked.arg.body.error), StrOf(word))

\* C20: for a live payload with an 'error' text, _fetch_real_translation
\* fails as RateLimited, which translate retries, when the text mentions
\* 'quota' or 'limit', also when it mentions 'language' too; otherwise as
\* UnsupportedLanguage, which translate does not retry, when it mentions
\* 'language'; otherwise as a generic ProtocolError, which translate
\* retries.  Nothing else of the payload changes the failure.
C20_ErrorTextPrecedence ==
  (/\ invoked.method = "_fetch_real_translation"
   /\ invoked.arg.net = "ok"
   /\ invoked.arg.body.json = "object"
   /\ invoked.arg.body.has_error
   /\ invoked.arg.body.error_is_str)
    => /\ (Mentions("quota") \/ Mentions("limit"))
            => /\ returned.exc.kind = "RateLimited"
               /\ CaughtForRetry(returned.exc)
       /\ (~Mentions("quota") /\ ~Mentions("limit") /\ Mentions("language"))
            => /\ returned.exc.kind = "UnsupportedLanguage"
               /\ ~CaughtForRetry(returned.exc)
       /\ (~Mentions("quota") /\ ~Mentions("limit") /\ ~Mentions("language"))
            => /\ returned.exc.kind = "ProtocolError"
               /\ CaughtForRetry(returned.exc)
       /\ returned.data = NoResult
       /\ \A r \in AllResponses :
            (r.net = "ok" /\ r.body.json = "object" /\ r.body.has_error
               /\ r.body.error_is_str
               /\ r.body.error = invoked.arg.body.error)
              => fetch_outcome[r] = returned

\* 'Language limit reached' mentions both and was taken for RateLimited
C20_Witness ==
  /\ invoked.method = "_fetch_real_translation"
  /\ invoked.arg.body.error = ErrLanguageLimit
  /\ invoked.arg.body.has_text
  /\ returned.exc = Exc("ConnectionError", "RateLimited")

\* -------------------------------------------------------------- C21
\* the failures the classifier gives a payload by its 'error' field
ErrorFieldKinds == {"RateLimited", "UnsupportedLanguage", "ProtocolError"}

\* C21 as stated: _fetch_real_translation classifies the payload of a
\* response by four rules in this order: no JSON object gives
\* MalformedResponse; an object with an 'error' field gives the failure of
\* that field, with or without 'translatedText'; an object with neither
\* gives MalformedResponse; an object with 'translatedText' and no 'error'
\* gives a result with is_mock False.  Every payload gives either a failure
\* of these kinds or a result, never both.
C21_Original ==
  (invoked.method = "_fetch_real_translation" /\ invoked.arg.net = "ok")
    => /\ IF invoked.arg.body.json # "object"
            THEN returned.exc.kind = "MalformedResponse"
          ELSE IF invoked.arg.body.has_error
            THEN returned.exc.kind \in ErrorFieldKinds
          ELSE IF ~invoked.arg.body.has_text
            THEN returned.exc.kind = "MalformedResponse"
          ELSE /\ returned.exc = NoExc
               /\ returned.data # NoResult
               /\ returned.data.is_mock = FALSE
       /\ (returned.exc = NoExc) # (returned.data = NoResult)

\* -------------------------------------------------------------- C22
\* what _fetch_real_translation does when the transport fails, whatever
\* body came with the failure
TransportFailuresSurfaced ==
  \A r \in AllResponses :
    /\ r.net = "timeout" => fetch_outcome[r] = Raise("TimeoutError", "Timeout")
    /\ r.net = "connect"
         => fetch_outcome[r] = Raise("ConnectionError", "ConnectionFailure")
    /\ r.net = "other"
         => fetch_outcome[r] = Raise("RequestException", "ProtocolError")

\* C22: a live translate call makes one network call per attempt: the calls
\* carry the attempt numbers 0, 1, 2, ... and there are as many as attempts
\* begun.  A transport timeout is raised as TimeoutError (Timeout), a
\* failed connection as ConnectionError (ConnectionFailure), any other
\* transport exception as RequestException (ProtocolError), and the body
\* that came with the failure plays no part.
C22_OneCallPerAttempt ==
  /\ ~use_mock
       => LET calls == Calls
          IN  /\ \A i \in DOMAIN calls :
                   /\ calls[i].n = i - 1
                   /\ calls[i].what = "Timeout"
                        => calls[i].type = "TimeoutError"
                   /\ calls[i].what = "ConnectionFailure"
                        => calls[i].type = "ConnectionError"
                   /\ calls[i].type = "RequestException"
                        => calls[i].what = "ProtocolError"
              /\ pc = "attempting" => Len(calls) = attempt
              /\ (pc \in {"succeeded", "failed"} /\ calls # <<>>)
                   => Len(calls) = attempt + 1
  /\ TransportFailuresSurfaced

\* three attempts, three network calls: a timeout, a failed connection,
\* and an HTTP error that ended the call
C22_Witness ==
  /\ ~use_mock
  /\ pc = "failed"
  /\ Len(Calls) = 3
  /\ Calls[1].what = "Timeout"
  /\ Calls[2].what = "ConnectionFailure"
  /\ Calls[3].type = "RequestException"
  /\ outcome.exc = Exc("RequestException", "ProtocolError")

\* -------------------------------------------------------------- C23
\* C23: a result that translate returns, from either transport, carries
\* attempts = n + 1 for the attempt number n of the call that gave it; that
\* is between 1 and max_retries, and it is the number of transport calls
\* the translate call made.
C23_AttemptsStamp ==
  pc = "succeeded"
    => LET calls == Calls
       IN  /\ outcome.exc = NoExc
           /\ calls # <<>>
           /\ calls[Len(calls)].what \in {"ok", "mock"}
           /\ outcome.data.attempts = calls[Len(calls)].n + 1
           /\ 1 <= outcome.data.attempts
           /\ outcome.data.attempts <= max_retries
           /\ outcome.data.attempts = Len(calls)

\* with max_retries = 2 the second and last attempt succeeded: attempts = 2
C23_Witness ==
  /\ pc = "succeeded"
  /\ ~use_mock
  /\ max_retries = 2
  /\ Len(Calls) = 2
  /\ Calls[1].what = "RateLimited"
  /\ Calls[2].n = 1
  /\ outcome.data.attempts = 2
  /\ outcome.data.is_mock = FALSE

\* -------------------------------------------------------------- C24
\* C24 as stated: whatever client was constructed, a translate call whose
\* request passed validation has made at least one transport call when it
\* ends.
C24_Original ==
  (/\ pc \in {"succeeded", "failed"}
   /\ log # <<>>
   /\ log[1].ev = "validate"
   /\ log[1].what = "ok")
    => Calls # <<>>

\* -------------------------------------------------------------- C25
\* delay(a) of the retry policy, in ticks
PolicyDelay(a) ==
  IF RETRY_STRATEGY = "exponential" THEN RETRY_DELAY * 2 ^ a
  ELSE IF RETRY_STRATEGY = "linear" THEN RETRY_DELAY * (a + 1)
  ELSE 0

\* C25: translate sleeps for backoff only right after an attempt that failed
\* with a retried exception and was not the last one (attempt number below
\* max_retries - 1), and another attempt follows the sleep: never after a
\* result, after a failure that is not retried, or after the last attempt.
\* A call that ended after n >= 1 attempts slept n - 1 times, the i-th time
\* for delay(i - 1).
C25_SleepsBetweenAttempts ==
  /\ \A i \in DOMAIN log :
       log[i].ev = "sleep"
         => /\ i > 1
            /\ log[i - 1].ev = "call"
            /\ log[i - 1].type \in {"TimeoutError", "ConnectionError"}
            /\ log[i - 1].what \in RetryableKinds
            /\ log[i - 1].n < max_retries - 1
            /\ i = Len(log) => pc = "attempting"
            /\ i < Len(log)
                 => \E j \in (i + 1)..Len(log) :
                      /\ log[j].ev = "call"
                      /\ log[j].n = log[i - 1].n + 1
                      /\ \A m \in (i + 1)..(j - 1) : log[m].ev = "rate_wait"
  /\ LET calls == Calls
         sleeps == Sleeps
     IN  /\ (pc \in {"succeeded", "failed"} /\ calls # <<>>)
              => Len(sleeps) = Len(calls) - 1
         /\ \A i \in DOMAIN sleeps : sleeps[i].n = PolicyDelay(i - 1)

\* under Linear, two retried failures and their sleeps of 1 s and 2 s, then
\* an UnsupportedLanguage failure that ended the call with no sleep after it
C25_Witness ==
  /\ pc = "failed"
  /\ RETRY_STRATEGY = "linear"
  /\ Len(Calls) = 3
  /\ Calls[1].what = "RateLimited"
  /\ Calls[2].what = "Timeout"
  /\ Calls[3].what = "UnsupportedLanguage"
  /\ Len(Sleeps) = 2
  /\ Sleeps[1].n = 4
  /\ Sleeps[2].n = 8
  /\ log[Len(log)].ev = "call"

\* -------------------------------------------------------------- C26
\* a step from an ended call adds nothing to it, or begins another call
EndedStaysEnded ==
  pc \in {"succeeded", "failed"}
    => \/ /\ log' = log
          /\ pc' = pc
          /\ outcome' = outcome
       \/ /\ Len(log') = 1
          /\ log'[1].ev = "validate"

\* C26: every translate call that has begun its attempts ends, succeeded or
\* failed, when each transport call and each sleep returns; it makes at most
\* max_retries transport calls; and once it has ended, nothing is added to
\* what it did: no transport call, rate-limiter wait or backoff sleep, until
\* another translate call begins with its validation.
C26_TranslateEnds ==
  /\ (pc = "attempting") ~> (pc \in {"succeeded", "failed"})
  /\ [](Len(Calls) <= max_retries)
  /\ [][EndedStaysEnded]_vars

\* a call ended after max_retries = 3 transport calls, the last a timeout
C26_Witness ==
  /\ pc = "failed"
  /\ max_retries = 3
  /\ Len(Calls) = max_retries
  /\ RETRY_STRATEGY = "immediate"
  /\ Calls[3].what = "Timeout"
  /\ outcome.exc = Exc("TimeoutError", "Timeout")

\* -------------------------------------------------------------- C27
\* C27 as stated: on a mock client (with at least one attempt allowed), a
\* validated translate call whose text and target, as the mock transport
\* looks them up, are no key of the mock table has returned the placeholder
\* built from the display name SUPPORTED_LANGUAGES gives the requested
\* language, the code trimmed and lowercased as validation reads it, and
\* from the text as it was given.
C27_Original ==
  (/\ use_mock
   /\ max_retries >= 1
   /\ pc \in {"succeeded", "failed"}
   /\ log[1].what = "ok"
   /\ MockHits = {})
    => /\ pc = "succeeded"
       /\ outcome.data.translatedText =
            Translated("",
                       SUPPORTED_LANGUAGES[Join(Strip(Lower(target_language)))],
                       text)

\* -------------------------------------------------------------- C28
\* C28 as stated: of every request body a live translate call has posted,
\* the text q is not blank and has at most 5000 characters, counted on q as
\* posted, and the target is a key of SUPPORTED_LANGUAGES.
C28_Original ==
  (~use_mock /\ Calls # <<>>)
    => /\ ~IsBlank(payload(text, target_language).q)
       /\ StrLen(payload(text, target_language).q) <= 5000
       /\ Join(payload(text, target_language).target)
            \in DOMAIN SUPPORTED_LANGUAGES

\* -------------------------------------------------------------- C29
\* C29: validate_input, called with any text and target on a client in any
\* state, makes its four checks in this order and returns the message of
\* the first that fails: the text is blank; the text, trimmed, has more than
\* 5000 characters; the target is blank; the target, trimmed and lowercased,
\* is no key of SUPPORTED_LANGUAGES.  It returns (True, None) when none
\* fails.  What it returns is fixed by the two arguments alone.
C29_FirstFailingCheck ==
  invoked.method = "validate_input"
    => returned =
         IF IsBlank(invoked.arg[1])
           THEN <<FALSE, "Text cannot be empty">>
         ELSE IF StrLen(Strip(invoked.arg[1])) > 5000
           THEN <<FALSE, "Text too long">>
         ELSE IF IsBlank(invoked.arg[2])
           THEN <<FALSE, "Target language code cannot be empty">>
         ELSE IF Join(Strip(Lower(invoked.arg[2])))
                   \notin DOMAIN SUPPORTED_LANGUAGES
           THEN <<FALSE, "Invalid language code">>
         ELSE <<TRUE, "None">>

\* a text over the limit with the unsupported target "xx", after a live
\* call: the text's message is the one returned
C29_Witness ==
  /\ invoked.method = "validate_input"
  /\ invoked.arg = <<TextTooLong, StrOf("xx")>>
  /\ returned = <<FALSE, "Text too long">>
  /\ last_start # -1

\* -------------------------------------------------------------- C30
\* a step of a translate call that is making its attempts keeps the request
RequestKept ==
  pc = "attempting" => (text' = text /\ target_language' = target_language)

\* C30: no step of a translate call, however it ends, changes max_retries,
\* use_mock or RETRY_STRATEGY, and from its first attempt to its end the
\* call keeps the text and the target it was given, which every attempt
\* hands to the transport; of the client's state only last_request_time
\* changes.
C30_TranslateFrame ==
  /\ [][UNCHANGED config]_vars
  /\ [][RequestKept]_vars

\* a live call for ' es ' that succeeded at its second attempt: the rate
\* limiter's stamp has moved, the request and the policy are as they were
C30_Witness ==
  /\ pc = "succeeded"
  /\ ~use_mock
  /\ max_retries = MAX_RETRIES
  /\ RETRY_STRATEGY = "immediate"
  /\ Len(Calls) = 2
  /\ text = TextHello
  /\ target_language = StrOf(" es ")
  /\ last_request_time > REQUEST_TIMEOUT

\* ------------------------------------------------- two client instances

\* a second instance whose last_request_time is the attribute of the class:
\* its _rate_limit stamps the one shared value
MutPeerSharesStamp ==
  /\ now <= MaxTime
  /\ \E r \in {q \in Responses : q.net = "timeout"
                                    \/ fetch_outcome[q].exc = NoExc},
        d \in 0..MaxNetTime :
       LET w == rate_limit_sleep(now, last_request_time)
       IN  /\ last_request_time' = rate_limit_stamp(now, w)
           /\ peer' = [last_request_time |-> rate_limit_stamp(now, w),
                       last_start |-> now + w,
                       returned |-> fetch_outcome[r]]
           /\ now' = now + w + d
  /\ UNCHANGED <<config, last_start, call_vars, invoked, returned, threads,
                 starts, items, args, response, store_vars, stock_vars,
                 frame>>

\* one pass of the loop of translate on the second instance, a live client:
\* its _fetch_real_translation, with _rate_limit reading and writing the
\* last_request_time that its own __init__ made, the transport answering
\* with a timeout or a translation r after d ticks
PeerAttemptLive ==
  /\ now <= MaxTime
  /\ \E r \in {q \in Responses : q.net = "timeout"
                                    \/ fetch_outcome[q].exc = NoExc},
        d \in 0..MaxNetTime :
       LET w == rate_limit_sleep(now, peer.last_request_time)
       IN  /\ peer' = [last_request_time |-> rate_limit_stamp(now, w),
                       last_start |-> now + w,
                       returned |-> fetch_outcome[r]]
           /\ now' = now + w + d
  /\ UNCHANGED <<config, last_request_time, last_start, call_vars, invoked,
                 returned, threads, starts, items, args, response,
                 store_vars, stock_vars, frame>>

\* the steps of translate that a live client with retries takes, and the
\* calls on the second instance at any time between them
PairNext == Translate \/ AttemptLive \/ PeerAttemptLive

PairSpec == DefaultInit /\ [][PairNext]_vars

\* -------------------------------------------------------------- C31
\* the sleep _rate_limit asks for at time t of an instance whose last live
\* call started at start, -1 for an instance that has made none
OwnWait(t, start) == rate_limit_sleep(t, IF start < 0 THEN 0 ELSE start)

\* a step of either instance leaves the other as it was, and a live call
\* starts after the wait that the instance's own last call asks for
InstancesIndependent ==
  /\ peer' # peer
       => UNCHANGED <<config, last_request_time, last_start, call_vars>>
  /\ <<last_request_time, last_start, call_vars>>'
         # <<last_request_time, last_start, call_vars>>
       => peer' = peer
  /\ last_start' # last_start
       => last_start' = now + OwnWait(now, last_start)
  /\ peer'.last_start # peer.last_start
       => peer'.last_start = now + OwnWait(now, peer.last_start)

\* C31: two client instances are independent: a call on one never changes
\* the other's last_request_time, its configuration, the state of its
\* translate call or its result, and each instance's live call starts
\* after the wait its own previous live call asks for, whatever the other
\* instance has done in between.
C31_InstancesIndependent == [][InstancesIndependent]_vars

\* both instances have made live calls: the second instance's call started
\* less than REQUEST_TIMEOUT before the call of the first, which did not
\* wait for it and succeeded
C31_Witness ==
  /\ pc = "succeeded"
  /\ Len(Calls) = 1
  /\ \A j \in 1..Len(log) : log[j].ev # "rate_wait"
  /\ peer.last_start >= 0
  /\ peer.last_start < last_start
  /\ last_start - peer.last_start < REQUEST_TIMEOUT
  /\ peer.returned # NoOutcome

\* ------------------------------------------------ app2: the student store

\* the largest id the store hands out
StoreMaxId == 2

\* a JSON object with these keys
Json(name, age, grade, id) ==
  [json |-> TRUE, name |-> name, age |-> age, grade |-> grade, id |-> id]

\* what get_json gives for the requests: None, the empty object, objects
\* that miss keys, and objects where the client sent an id of its own
Bodies ==
  { NoJson,
    Json(NoField, NoField, NoField, NoField),
    Json(NoField, Field("20"), NoField, NoField),
    Json(NoField, NoField, Field("A"), Field("7")),
    Json(Field("Ann"), NoField, NoField, NoField),
    Json(Field("Ann"), Field("20"), Field("A"), NoField),
    Json(Field("Bob"), NoField, NoField, Field("7")),
    Json(Field("Bob"), Field("20"), NoField, NoField) }

\* the ids of the URLs: int:id of the routes
UrlIds == 0..StoreMaxId

\* not data, line 18: None and the empty object are false
Falsy(data) ==
  \/ ~data.json
  \/ ~(data.name.given \/ data.age.given \/ data.grade.given \/ data.id.given)

\* dict.get(key, default): f is what the object holds for the key
Get(f, default) == IF f.given THEN f.value ELSE default

\* d[k] = v of a dict
SetItem(d, k, v) == [j \in DOMAIN d \cup {k} |-> IF j = k THEN v ELSE d[j]]

\* d.pop(k) of a dict that holds k: what is left
Popped(d, k) == [j \in DOMAIN d \ {k} |-> d[j]]

Answer(st, nid, status, error, student) ==
  [students |-> st, next_id |-> nid,
   reply |-> [status |-> status, error |-> error, student |-> student]]

\* add_student numbering the new student by the size of the store
MutAddCountsStudents(st, nid, data) ==
  LET id == Cardinality(DOMAIN st) + 1
      new_student ==
        [id |-> id, name |-> data.name.value,
         age |-> Get(data.age, "None"), grade |-> Get(data.grade, "None")]
  IN  IF Falsy(data) \/ ~data.name.given
        THEN Answer(st, nid, "400", "Name is required", NoStudent)
        ELSE Answer(SetItem(st, id, new_student), id + 1, "201",
                    "None", new_student)

\* add_student, lines 14-30: the store and next_id after it, and its
\* response
add_student(st, nid, data) ==
  LET new_student ==
        [id |-> nid, name |-> data.name.value,
         age |-> Get(data.age, "None"), grade |-> Get(data.grade, "None")]
  IN  IF Falsy(data) \/ ~data.name.given
        THEN Answer(st, nid, "400", "Name is required", NoStudent)
        ELSE Answer(SetItem(st, nid, new_student), nid + 1, "201",
                    "None", new_student)

\* the student after lines 40-42
Updated(student, data) ==
  [id |-> student.id,
   name |-> Get(data.name, student.name),
   age |-> Get(data.age, student.age),
   grade |-> Get(data.grade, student.grade)]

\* update_student storing the student when the id is not in the store
MutUpdateCreates(st, nid, id, data) ==
  LET student == IF id \in DOMAIN st THEN st[id]
                 ELSE [NoStudent EXCEPT !.id = id]
  IN  IF ~data.json
        THEN Answer(st, nid, "500", "AttributeError", NoStudent)
        ELSE Answer(SetItem(st, id, Updated(student, data)), nid, "200",
                    "None", Updated(student, data))

\* update_student, lines 33-44; data.get of line 40 raises AttributeError
\* when get_json gave None, which Flask answers with 500, and nothing has
\* been assigned by then
update_student(st, nid, id, data) ==
  IF id \notin DOMAIN st
    THEN Answer(st, nid, "404", "Student not found", NoStudent)
    ELSE IF ~data.json
      THEN Answer(st, nid, "500", "AttributeError", NoStudent)
      ELSE Answer(SetItem(st, id, Updated(st[id], data)), nid, "200",
                  "None", Updated(st[id], data))

\* delete_student, lines 47-52
delete_student(st, nid, id) ==
  IF id \notin DOMAIN st
    THEN Answer(st, nid, "404", "Student not found", NoStudent)
    ELSE Answer(Popped(st, id), nid, "200", "None", st[id])

\* a request that a handler answered with a: the store, the response and
\* the record of the ids handed out
Handled(method, id, data, a) ==
  /\ students' = a.students
  /\ next_id' = a.next_id
  /\ request' = [method |-> method, id |-> id, data |-> data]
  /\ reply' = a.reply
  /\ issued' = IF a.reply.status = "201"
                 THEN Append(issued, a.reply.student.id)
                 ELSE issued
  /\ UNCHANGED <<config, last_request_time, now, last_start, call_vars,
                 invoked, returned, threads, starts, items, args, response,
                 peer, stock_vars, frame>>

\* POST /students
AddStudent ==
  \E data \in Bodies :
    LET a == add_student(students, next_id, data)
    IN  /\ a.next_id <= StoreMaxId + 1
        /\ Handled("POST", 0, data, a)

\* PUT /students/<id>
UpdateStudent ==
  \E id \in UrlIds, data \in Bodies :
    Handled("PUT", id, data, update_student(students, next_id, id, data))

\* DELETE /students/<id>
DeleteStudent ==
  \E id \in UrlIds :
    Handled("DELETE", id, NoJson, delete_student(students, next_id, id))

StoreNext == AddStudent \/ UpdateStudent \/ DeleteStudent

StoreSpec == DefaultInit /\ [][StoreNext]_vars

\* -------------------------------------------------------------- C32
\* the ids handed out so far
Issued == {issued[i] : i \in 1..Len(issued)}

StoreIdsInOrder ==
  /\ \A k \in DOMAIN students : students[k].id = k
  /\ \A i \in 1..Len(issued) : issued[i] < next_id
  /\ \A i, j \in 1..Len(issued) : i < j => issued[i] < issued[j]
  /\ DOMAIN students \subseteq Issued
  /\ (request.method = "PUT" /\ reply.status = "200")
       => reply.student.id = request.id

\* a step keeps the id of every student that stays in the store
IdsKept ==
  \A k \in DOMAIN students \cap DOMAIN students' :
    students'[k].id = students[k].id

\* C32: in the student store, after any sequence of POST, PUT and DELETE
\* requests every stored student's id is the key it is stored under,
\* next_id is greater than every id handed out, the ids are handed out in
\* strictly increasing order, so that none is handed out twice, also after
\* its student was deleted, and PUT never changes a student's id, whatever
\* id the request body carries.
C32_StoreIds == []StoreIdsInOrder /\ [][IdsKept]_vars

\* student 1 was deleted and the next POST got id 2; a PUT whose body
\* carries id 7 has then renamed student 2
C32_Witness ==
  /\ issued = <<1, 2>>
  /\ DOMAIN students = {2}
  /\ request.method = "PUT"
  /\ request.data.id.given
  /\ reply.status = "200"
  /\ students[2].name = "Bob"

\* -------------------------------------------------------------- C33
\* the request of a step is request', answered with reply'
RejectedUnchanged ==
  /\ (request'.method = "POST"
        /\ (~request'.data.json \/ ~request'.data.name.given))
       => (reply'.status = "400" /\ UNCHANGED <<students, next_id>>)
  /\ (request'.method \in {"PUT", "DELETE"}
        /\ request'.id \notin DOMAIN students)
       => (reply'.status = "404" /\ UNCHANGED <<students, next_id>>)
  /\ reply'.status \notin {"200", "201"} => UNCHANGED <<students, next_id>>
  /\ (request'.method = "DELETE" /\ request'.id \in DOMAIN students)
       => /\ reply'.status = "200"
          /\ reply'.student = students[request'.id]
          /\ DOMAIN students' = DOMAIN students \ {request'.id}
          /\ \A k \in DOMAIN students' : students'[k] = students[k]
          /\ next_id' = next_id
  /\ \A k \in Issued \ DOMAIN students : k \notin DOMAIN students'

\* C33: in the student store every rejected request leaves students and
\* next_id as they were: POST without a body or without 'name' is answered
\* 400, PUT and DELETE for an id that is not stored 404; a DELETE of a
\* stored id removes exactly that student, whose id is never stored again,
\* so that every later PUT or DELETE of it is answered 404.
C33_RejectedUnchanged == [][RejectedUnchanged]_vars

\* student 1 was deleted, student 2 is stored, and a PUT for 1 with a
\* complete body has been answered 404
C33_Witness ==
  /\ issued = <<1, 2>>
  /\ DOMAIN students = {2}
  /\ next_id = 3
  /\ request.method = "PUT"
  /\ request.id = 1
  /\ request.data.name.given
  /\ reply.status = "404"

\* --------------------------------------------------- stock_query.py
MAX_REQUESTS_PER_MINUTE == 5
\* the 60 seconds of check_rate_limit
RATE_WINDOW == 60

\* the clock stops at MaxClock
MaxClock == 120

\* str.upper()
Upper(s) ==
  Canon([i \in DOMAIN s |->
           [c |-> IF \E k \in DOMAIN UpperToLower : UpperToLower[k] = s[i].c
                    THEN CHOOSE k \in DOMAIN UpperToLower :
                           UpperToLower[k] = s[i].c
                    ELSE s[i].c,
            n |-> s[i].n]])

\* str.isalpha(), for ASCII
IsAlpha(s) ==
  /\ s # <<>>
  /\ \A i \in DOMAIN s :
       \/ s[i].c \in DOMAIN UpperToLower
       \/ \E k \in DOMAIN UpperToLower : UpperToLower[k] = s[i].c

\* the keys of MOCK_STOCK_DATA
MOCK_STOCK_DATA ==
  {StrOf("AAPL"), StrOf("GOOGL"), StrOf("MSFT"), StrOf("TSLA"),
   StrOf("AMZN")}

\* the ticker symbols of the queries
TickerSymbols ==
  {StrOf(""), StrOf(" "), StrOf("aapl "), StrOf("MSFT"), StrOf("ZZZZ"),
   StrOf("GOOGLE"), StrOf("A1")}

\* what the transport and the server may answer a live query
StockResponses ==
  {"timeout", "connect", "other", "bad_json", "not_object", "error_message",
   "note", "no_quote", "missing_fields", "bad_numbers", "quote"}

\* _fetch_real_api, lines 205-289: what it raises for the response r of the
\* network call, NoExc for a quote it returns
stock_outcome ==
  [r \in StockResponses |->
     CASE r = "timeout" -> Exc("TimeoutError", "timeout")
       [] r = "connect" -> Exc("ConnectionError", "connect")
       [] r = "other" -> Exc("RequestException", "request")
       [] r = "note" -> Exc("ConnectionError", "note")
       [] r = "quote" -> NoExc
       [] OTHER -> Exc("ValueError", r)]

\* what a method of the client did: the client after it, what it raised,
\* whether it made the network call, and the path it took
Did(c, exc, network, path) ==
  [client |-> c, exc |-> exc, network |-> network, path |-> path]

\* check_rate_limit letting a request through when the count has reached
\* the limit
MutCheckAllowsAtLimit(c, t) ==
  LET c2 == IF t - c.rate_limit_reset >= RATE_WINDOW
              THEN [c EXCEPT !.request_count = 0, !.rate_limit_reset = t]
              ELSE c
  IN  [client |-> c2, under |-> c2.request_count <= MAX_REQUESTS_PER_MINUTE]

\* check_rate_limit at time t, lines 111-118: the client after it and what
\* it returns
check_rate_limit(c, t) ==
  LET c2 == IF t - c.rate_limit_reset >= RATE_WINDOW
              THEN [c EXCEPT !.request_count = 0, !.rate_limit_reset = t]
              ELSE c
  IN  [client |-> c2, under |-> c2.request_count < MAX_REQUESTS_PER_MINUTE]

\* increment_request_count, line 122
increment_request_count(c) == [c EXCEPT !.request_count = @ + 1]

\* _fetch_real_api at time t, the network call, if made, answered with r
fetch_real_api(c, t, r) ==
  LET checked == check_rate_limit(c, t)
      counted == increment_request_count(checked.client)
  IN  IF ~checked.under
        THEN Did(checked.client, Exc("ConnectionError", "rate_limit"),
                 FALSE, "real")
        ELSE IF counted.api_key = "None"
          THEN Did(counted, Exc("ValueError", "api_key"), FALSE, "real")
          ELSE Did(counted, stock_outcome[r], TRUE, "real")

\* _fetch_mock_data, lines 164-172
fetch_mock_data(c, ticker) ==
  IF ticker \notin MOCK_STOCK_DATA
    THEN Did(c, Exc("ValueError", "ticker"), FALSE, "mock")
    ELSE Did(c, NoExc, FALSE, "mock")

\* get_stock_data, lines 137-153
get_stock_data(c, t, ticker_symbol, r) ==
  LET ticker == Strip(Upper(ticker_symbol))
  IN  IF ticker_symbol = <<>> \/ Strip(ticker_symbol) = <<>>
        THEN Did(c, Exc("ValueError", "empty"), FALSE, "none")
        ELSE IF ~IsAlpha(ticker) \/ StrLen(ticker) > 5 \/ StrLen(ticker) < 1
          THEN Did(c, Exc("ValueError", "format"), FALSE, "none")
          ELSE IF c.use_mock THEN fetch_mock_data(c, ticker)
               ELSE fetch_real_api(c, t, r)

\* a method of the stock client called with the argument arg did d
StockCalled(method, arg, d) ==
  /\ stock' = d.client
  /\ invoked' = [method |-> method, arg |-> arg]
  /\ returned' = [exc |-> d.exc, network |-> d.network, path |-> d.path]
  /\ UNCHANGED <<config, last_request_time, now, last_start, call_vars,
                 threads, starts, items, args, response, peer, store_vars,
                 clock, frame>>

\* client.get_stock_data(ticker_symbol)
GetStockData ==
  \E sym \in TickerSymbols, r \in StockResponses :
    StockCalled("get_stock_data", sym, get_stock_data(stock, clock, sym, r))

\* client._fetch_mock_data(ticker) on any client
FetchMockData ==
  \E sym \in TickerSymbols :
    StockCalled("_fetch_mock_data", sym, fetch_mock_data(stock, sym))

\* client.check_rate_limit()
CheckRateLimit ==
  LET checked == check_rate_limit(stock, clock)
  IN  StockCalled("check_rate_limit", checked.under,
                  Did(checked.client, NoExc, FALSE, "none"))

\* time passes between two calls: a second less than the window, or the
\* window
Elapse ==
  /\ \E d \in {RATE_WINDOW - 1, RATE_WINDOW} :
       /\ clock + d <= MaxClock
       /\ clock' = clock + d
  /\ UNCHANGED <<config, last_request_time, now, last_start, call_vars,
                 invoked, returned, threads, starts, items, args, response,
                 peer, store_vars, stock, frame>>

\* StockAPIClient(api_key, use_mock), the clock at 0
StockInit ==
  /\ InitTranslation
  /\ max_retries = MAX_RETRIES
  /\ ~use_mock
  /\ RETRY_STRATEGY = "exponential"
  /\ \E k \in {"None", "key"}, m \in BOOLEAN :
       stock = StockAPIClient(k, m, 0)
  /\ clock = 0

StockNext == GetStockData \/ FetchMockData \/ CheckRateLimit \/ Elapse

StockSpec == StockInit /\ [][StockNext]_vars

\* -------------------------------------------------------------- C34
CountWithinLimit == stock.request_count \in 0..MAX_REQUESTS_PER_MINUTE

\* a step that leaves the clock alone is a call of a method of the client
StockLimiter ==
  /\ (clock' = clock /\ returned'.path = "real"
        /\ stock.request_count = MAX_REQUESTS_PER_MINUTE
        /\ clock - stock.rate_limit_reset < RATE_WINDOW)
       => /\ returned'.exc = Exc("ConnectionError", "rate_limit")
          /\ ~returned'.network
          /\ stock' = stock
  /\ stock'.rate_limit_reset # stock.rate_limit_reset
       => /\ clock - stock.rate_limit_reset >= RATE_WINDOW
          /\ stock'.rate_limit_reset = clock
          /\ invoked'.method \in {"check_rate_limit", "get_stock_data"}
          /\ stock'.request_count =
               IF invoked'.method = "check_rate_limit" THEN 0 ELSE 1
  /\ stock'.request_count < stock.request_count
       => stock'.rate_limit_reset # stock.rate_limit_reset
  /\ stock'.request_count > stock.request_count
       => /\ stock'.request_count = stock.request_count + 1
          /\ returned'.path = "real"
  /\ (clock' = clock /\ returned'.path = "mock") => stock' = stock
  /\ (clock' = clock /\ returned'.network)
       => stock'.request_count > stock.request_count
             \/ stock'.rate_limit_reset # stock.rate_limit_reset

\* C34: in StockAPIClient request_count never exceeds
\* MAX_REQUESTS_PER_MINUTE (5); with 5 requests counted in the current
\* window _fetch_real_api raises ConnectionError, leaves the counter as it
\* is and makes no network call; the counter goes back only in a check made
\* at least 60 seconds after rate_limit_reset, which becomes the time of
\* that check; the mock path never changes the counter, and every network
\* call has been counted.
C34_RateLimitCounter == []CountWithinLimit /\ [][StockLimiter]_vars

\* the window that began at 60 was filled, and a live query made 59 seconds
\* into it has been refused without a network call
C34_Witness ==
  /\ clock = 2 * RATE_WINDOW - 1
  /\ stock.rate_limit_reset = RATE_WINDOW
  /\ stock.request_count = MAX_REQUESTS_PER_MINUTE
  /\ stock.api_key = "key"
  /\ invoked.method = "get_stock_data"
  /\ returned.path = "real"
  /\ returned.exc = Exc("ConnectionError", "rate_limit")
  /\ ~returned.network

\* ------------------------------------------- factorial.py, is_prime.py

\* the factorials are called with n in -MaxFactorialArg..MaxFactorialArg
MaxFactorialArg == 11

\* is_prime is called with n in -MaxFactorialArg..MaxPrimeArg
MaxPrimeArg == 130

\* what a function returned, or the exception it raised
Returns(v) == [exc |-> "None", value |-> v]
Raises(type) == [exc |-> type, value |-> 0]

\* recursive_factorial returning n at line 39
RECURSIVE MutRecursiveReturnsN(_)
MutRecursiveReturnsN(n) ==
  IF n < 0 THEN Raises("ValueError")
  ELSE IF n <= 1 THEN Returns(n)
  ELSE Returns(n * MutRecursiveReturnsN(n - 1).value)

\* recursive_factorial, lines 34-41, for an int
RECURSIVE recursive_factorial(_)
recursive_factorial(n) ==
  IF n < 0 THEN Raises("ValueError")
  ELSE IF n <= 1 THEN Returns(1)
  ELSE Returns(n * recursive_factorial(n - 1).value)

\* the loop of iterative_factorial, lines 65-66, from i on
RECURSIVE FactorialLoop(_, _, _)
FactorialLoop(i, n, result) ==
  IF i >= n + 1 THEN result ELSE FactorialLoop(i + 1, n, result * i)

\* iterative_factorial, lines 60-67, for an int
iterative_factorial(n) ==
  IF n < 0 THEN Raises("ValueError") ELSE Returns(FactorialLoop(2, n, 1))

\* both factorials called with the same n, as _demo_from_input does
Factorials ==
  /\ ~frame.running
  /\ \E n \in (-MaxFactorialArg)..MaxFactorialArg :
       /\ invoked' = [method |-> "factorial", arg |-> n]
       /\ returned' = [iterative |-> iterative_factorial(n),
                       recursive |-> recursive_factorial(n)]
  /\ UNCHANGED <<config, last_request_time, now, last_start, call_vars,
                 threads, starts, items, args, response, peer, store_vars,
                 stock_vars, frame>>

\* the locals of is_prime and what it has returned
Running(i, w) ==
  [frame |-> [running |-> TRUE, i |-> i, w |-> w], value |-> FALSE]
Returned(v) == [frame |-> NoFrame, value |-> v]

\* is_prime, lines 12-19: up to the loop
is_prime_enter(n) ==
  IF n < 2 THEN Returned(FALSE)
  ELSE IF n % 2 = 0 THEN Returned(n = 2)
  ELSE IF n % 3 = 0 THEN Returned(n = 3)
  ELSE Running(5, 2)

\* the loop of is_prime leaving at i * i = n
MutLoopLeavesAtSquare(n, i, w) ==
  IF i * i < n
    THEN IF n % i = 0 THEN Returned(FALSE) ELSE Running(i + w, 6 - w)
    ELSE Returned(TRUE)

\* is_prime, lines 20-25: the test of the loop, one pass of it, and the
\* return after it
is_prime_loop(n, i, w) ==
  IF i * i <= n
    THEN IF n % i = 0 THEN Returned(FALSE) ELSE Running(i + w, 6 - w)
    ELSE Returned(TRUE)

\* is_prime has got as far as s
IsPrimeAt(s) ==
  /\ frame' = s.frame
  /\ returned' = [value |-> s.value]
  /\ UNCHANGED <<config, last_request_time, now, last_start, call_vars,
                 threads, starts, items, args, response, peer, store_vars,
                 stock_vars>>

\* is_prime(n) called
IsPrimeCall ==
  /\ ~frame.running
  /\ \E n \in (-MaxFactorialArg)..MaxPrimeArg :
       /\ invoked' = [method |-> "is_prime", arg |-> n]
       /\ IsPrimeAt(is_prime_enter(n))

\* is_prime at the test of its loop
IsPrimeLoop ==
  /\ frame.running
  /\ invoked' = invoked
  /\ IsPrimeAt(is_prime_loop(invoked.arg, frame.i, frame.w))

MathNext == Factorials \/ IsPrimeCall \/ IsPrimeLoop

MathSpec == DefaultInit /\ [][MathNext]_vars

\* a function that runs takes its next step
MathFairSpec == MathSpec /\ WF_vars(IsPrimeLoop)

\* -------------------------------------------------------------- C35
\* 0!, 1!, ..., 12!
FactorialTable ==
  <<1, 1, 2, 6, 24, 120, 720, 5040, 40320, 362880, 3628800, 39916800,
    479001600>>

\* C35: recursive_factorial and iterative_factorial are equivalent: called
\* with the same integer n >= 0 both return n!, 1 for n = 0 and n = 1, and
\* called with a negative integer both raise ValueError.
C35_FactorialsAgree ==
  invoked.method = "factorial"
    => /\ returned.iterative = returned.recursive
       /\ returned.recursive =
            IF invoked.arg < 0 THEN Raises("ValueError")
            ELSE Returns(FactorialTable[invoked.arg + 1])

\* both factorials have returned 10! = 3628800
C35_Witness ==
  /\ invoked = [method |-> "factorial", arg |-> 10]
  /\ returned.iterative = Returns(3628800)
  /\ returned.recursive = Returns(3628800)

\* -------------------------------------------------------------- C36
\* n is a prime number
Prime(n) == n >= 2 /\ \A d \in 2..(n - 1) : n % d # 0

PrimeAnswer ==
  (invoked.method = "is_prime" /\ ~frame.running)
    => returned.value = Prime(invoked.arg)

\* C36: is_prime(n) returns True exactly when n >= 2 and no d with
\* 1 < d < n divides n, so False for every n < 2, and its loop ends for
\* every n: a call that has entered the loop returns.
C36_IsPrime == []PrimeAnswer /\ (frame.running ~> ~frame.running)

\* 127 was found prime after the loop had tried 5, 7 and 11
C36_Witness ==
  /\ invoked = [method |-> "is_prime", arg |-> 127]
  /\ ~frame.running
  /\ returned.value = TRUE

====
